---------------------------- MODULE Spec2Model ----------------------------
(***************************************************************************)
(* CourseQuest Lite: the natural-language filter extractor, the two search *)
(* handlers (POST /ask, GET /courses), the comparison handler               *)
(* (GET /compare), the row store they query, the CSV ingestion              *)
(* (POST /ingest), the shutdown of the server process, and the compare      *)
(* list, compare page and search page of the frontend.                      *)
(*                                                                         *)
(* Representation.  Text is a TLA+ string; Len, SubSeq, Head, Tail and \o   *)
(* act on its characters.  A JavaScript value that may be undefined / null  *)
(* / NaN is a sequence of length 0 (absent) or 1 (present).  Numbers that   *)
(* the code obtains with parseFloat (fees, ratings) are fixed-point: they   *)
(* are held in tenths (4.5 is 45); numbers obtained with parseInt are       *)
(* integers.  A filter map is a function whose domain is the set of keys    *)
(* that are set.                                                           *)
(***************************************************************************)
EXTENDS Integers, Sequences, FiniteSets, TLC

\* ------------------------------------------------------------------------
\* Strings
\* ------------------------------------------------------------------------

Null == <<>>

Some(v) == <<v>>

IsSet(o) == o # Null

Val(o) == o[1]

Min2(a, b) == IF a <= b THEN a ELSE b

Max2(a, b) == IF a >= b THEN a ELSE b

SetMin(S) == CHOOSE x \in S : \A y \in S : x <= y

Digits == {"0", "1", "2", "3", "4", "5", "6", "7", "8", "9"}

DigitVal == [c \in Digits |->
               CASE c = "0" -> 0 [] c = "1" -> 1 [] c = "2" -> 2 [] c = "3" -> 3
                 [] c = "4" -> 4 [] c = "5" -> 5 [] c = "6" -> 6 [] c = "7" -> 7
                 [] c = "8" -> 8 [] c = "9" -> 9]

UpperCase == {"A", "B", "C", "D", "E", "F", "G", "H", "I", "J", "K", "L", "M",
              "N", "O", "P", "Q", "R", "S", "T", "U", "V", "W", "X", "Y", "Z"}

LowerOf == [c \in UpperCase |->
              CASE c = "A" -> "a" [] c = "B" -> "b" [] c = "C" -> "c" [] c = "D" -> "d"
                [] c = "E" -> "e" [] c = "F" -> "f" [] c = "G" -> "g" [] c = "H" -> "h"
                [] c = "I" -> "i" [] c = "J" -> "j" [] c = "K" -> "k" [] c = "L" -> "l"
                [] c = "M" -> "m" [] c = "N" -> "n" [] c = "O" -> "o" [] c = "P" -> "p"
                [] c = "Q" -> "q" [] c = "R" -> "r" [] c = "S" -> "s" [] c = "T" -> "t"
                [] c = "U" -> "u" [] c = "V" -> "v" [] c = "W" -> "w" [] c = "X" -> "x"
                [] c = "Y" -> "y" [] c = "Z" -> "z"]

LowerCase == {LowerOf[c] : c \in UpperCase}

UpperOf == [c \in LowerCase |-> CHOOSE u \in UpperCase : LowerOf[u] = c]

CharAt(s, i) == SubSeq(s, i, i)

IsDigitAt(s, i) == i >= 1 /\ i <= Len(s) /\ CharAt(s, i) \in Digits

\* \s of the regular expressions; the texts of this model hold no other
\* white space than the blank.
IsWsAt(s, i) == i >= 1 /\ i <= Len(s) /\ CharAt(s, i) = " "

RECURSIVE ToLowerCase(_)
ToLowerCase(s) ==
    IF s = "" THEN ""
    ELSE (IF Head(s) \in UpperCase THEN LowerOf[Head(s)] ELSE Head(s))
             \o ToLowerCase(Tail(s))

RECURSIVE ToUpperCase(_)
ToUpperCase(s) ==
    IF s = "" THEN ""
    ELSE (IF Head(s) \in LowerCase THEN UpperOf[Head(s)] ELSE Head(s))
             \o ToUpperCase(Tail(s))

RECURSIVE TrimStart(_)
TrimStart(s) == IF s # "" /\ Head(s) = " " THEN TrimStart(Tail(s)) ELSE s

RECURSIVE TrimEnd(_)
TrimEnd(s) ==
    IF s # "" /\ CharAt(s, Len(s)) = " " THEN TrimEnd(SubSeq(s, 1, Len(s) - 1))
    ELSE s

Trim(s) == TrimEnd(TrimStart(s))

\* p occurs in s at position i
StartsAt(s, i, p) ==
    /\ i >= 1
    /\ i + Len(p) - 1 <= Len(s)
    /\ SubSeq(s, i, i + Len(p) - 1) = p

\* String.prototype.includes
Includes(s, p) == \E i \in 1..(Len(s) - Len(p) + 1) : StartsAt(s, i, p)

\* String.prototype.split(sep) for a one-character separator: the pieces
\* between the separators, empty pieces kept.
RECURSIVE SplitFrom(_, _, _, _)
SplitFrom(s, sep, i, cur) ==
    IF i > Len(s) THEN <<cur>>
    ELSE IF CharAt(s, i) = sep
         THEN <<cur>> \o SplitFrom(s, sep, i + 1, "")
         ELSE SplitFrom(s, sep, i + 1, cur \o CharAt(s, i))

Split(s, sep) == SplitFrom(s, sep, 1, "")

\* String.prototype.split(/\s+/): a run of blanks is one separator.
RECURSIVE SplitWsFrom(_, _, _)
SplitWsFrom(s, i, cur) ==
    IF i > Len(s) THEN <<cur>>
    ELSE IF CharAt(s, i) = " "
         THEN IF i > 1 /\ CharAt(s, i - 1) = " "
              THEN SplitWsFrom(s, i + 1, cur)
              ELSE <<cur>> \o SplitWsFrom(s, i + 1, "")
         ELSE SplitWsFrom(s, i + 1, cur \o CharAt(s, i))

SplitWs(s) == SplitWsFrom(s, 1, "")

\* Array.prototype.join
RECURSIVE Join(_, _)
Join(words, sep) ==
    IF words = <<>> THEN ""
    ELSE IF Len(words) = 1 THEN words[1]
    ELSE words[1] \o sep \o Join(Tail(words), sep)

Range(seq) == {seq[i] : i \in 1..Len(seq)}

\* String.prototype.replace(/,/g, '')
RECURSIVE RemoveCommas(_)
RemoveCommas(s) ==
    IF s = "" THEN ""
    ELSE (IF Head(s) = "," THEN "" ELSE Head(s)) \o RemoveCommas(Tail(s))

\* ------------------------------------------------------------------------
\* Numbers
\* ------------------------------------------------------------------------

\* the position after the longest run of digits that starts at i
RECURSIVE DigitsEnd(_, _)
DigitsEnd(s, i) == IF IsDigitAt(s, i) THEN DigitsEnd(s, i + 1) ELSE i

\* the position after the longest run of blanks that starts at i
RECURSIVE SkipWs(_, _)
SkipWs(s, i) == IF IsWsAt(s, i) THEN SkipWs(s, i + 1) ELSE i

RECURSIVE DigitsValue(_, _)
DigitsValue(s, acc) ==
    IF s = "" THEN acc ELSE DigitsValue(Tail(s), acc * 10 + DigitVal[Head(s)])

\* Fixed point: the number n in tenths.
Dec(n) == n * 10

IsWhole(d) == d % 10 = 0

Whole(d) == d \div 10

\* parseInt(value): blanks, an optional minus sign, then the longest prefix
\* of digits; NaN (Null) when there is no digit.
ParseInt(value) ==
    LET s == TrimStart(value)
        neg == StartsAt(s, 1, "-")
        from == IF neg THEN 2 ELSE 1
        to == DigitsEnd(s, from)
        n == DigitsValue(SubSeq(s, from, to - 1), 0)
    IN  IF to = from THEN Null ELSE Some(IF neg THEN 0 - n ELSE n)

\* parseFloat(value), in tenths: blanks, an optional minus sign, digits, and
\* an optional fraction of which the first digit is kept (the texts of this
\* model carry at most one); NaN (Null) when there is no digit.
ParseFloat(value) ==
    LET s == TrimStart(value)
        neg == StartsAt(s, 1, "-")
        from == IF neg THEN 2 ELSE 1
        to == DigitsEnd(s, from)
        n == DigitsValue(SubSeq(s, from, to - 1), 0)
        frac == IF StartsAt(s, to, ".") /\ IsDigitAt(s, to + 1)
                THEN DigitVal[CharAt(s, to + 1)] ELSE 0
        d == Dec(n) + frac
    IN  IF to = from THEN Null ELSE Some(IF neg THEN 0 - d ELSE d)

\* ------------------------------------------------------------------------
\* The regular expressions of parseNaturalLanguageQuery
\*
\* A pattern is an operator R(s, i): the captured groups (match[1], match[2])
\* of the match that starts at position i of s, or <<>> when the pattern does
\* not match there.  In every pattern below a repetition (\s*, \d+) is
\* followed by something that cannot begin with what it repeats, so its
\* longest match is its only match.
\* ------------------------------------------------------------------------

NoMatch == <<>>

\* String.prototype.match(regex) without the g flag: the leftmost match
FirstMatch(s, R(_, _)) ==
    LET hits == {i \in 1..Len(s) : R(s, i) # NoMatch}
    IN  IF hits = {} THEN NoMatch ELSE R(s, SetMin(hits))

\* the positions after one of the words kws read at i
KwEnds(s, i, kws) == {i + Len(k) : k \in {w \in kws : StartsAt(s, i, w)}}

\* (?:rs\.?|inr)? read at j (the texts of this model are ASCII: no rupee sign)
CurrencyEnds(s, j) == {j} \cup KwEnds(s, j, {"rs", "rs.", "inr"})

\* \s*(?:rs\.?|inr)?\s* read at j: where the number that follows may begin
AfterCurrency(s, j) == {SkipWs(s, e) : e \in CurrencyEnds(s, SkipWs(s, j))}

\* \d+(?:,\d+)* read at p: the position after it
RECURSIVE CommaNumberEnd(_, _)
CommaNumberEnd(s, p) ==
    LET e == DigitsEnd(s, p)
    IN  IF StartsAt(s, e, ",") /\ IsDigitAt(s, e + 1)
        THEN CommaNumberEnd(s, e + 1) ELSE e

\* \d+(?:\.\d+)? read at p: the position after it
DecimalEnd(s, p) ==
    LET e == DigitsEnd(s, p)
    IN  IF StartsAt(s, e, ".") /\ IsDigitAt(s, e + 1) THEN DigitsEnd(s, e + 1) ELSE e

RangeJoiners == {"and", "to", "-"}

RangeOpeners == {"between", "from"}

\* (?:kws)\s*(?:rs\.?|inr)?\s*(\d+(?:,\d+)*)
KwFee(s, i, kws) ==
    LET starts == {p \in UNION {AfterCurrency(s, e) : e \in KwEnds(s, i, kws)} :
                     IsDigitAt(s, p)}
    IN  IF starts = {} THEN NoMatch
        ELSE LET p == SetMin(starts) IN <<SubSeq(s, p, CommaNumberEnd(s, p) - 1)>>

FeeUnderRegex(s, i) ==
    KwFee(s, i, {"under", "below", "less than", "cheaper than", "maximum", "max", "up to"})

FeeAboveRegex(s, i) ==
    KwFee(s, i, {"above", "over", "more than", "greater than", "minimum", "min", "at least"})

FeeExactRegex(s, i) ==
    KwFee(s, i, {"exactly", "cost", "costs", "fee", "fees", "price at", "priced at"})

\* (?:between|from)\s*cur?\s*(num)\s*(?:and|to|-)\s*cur?\s*(num)
FeeBetweenRegex(s, i) ==
    LET first == KwFee(s, i, RangeOpeners)
    IN  IF first = NoMatch THEN NoMatch
        ELSE LET p1 == SetMin({p \in UNION {AfterCurrency(s, e) :
                                   e \in KwEnds(s, i, RangeOpeners)} : IsDigitAt(s, p)})
                 j == SkipWs(s, CommaNumberEnd(s, p1))
                 starts == {p \in UNION {AfterCurrency(s, e) :
                                   e \in KwEnds(s, j, RangeJoiners)} : IsDigitAt(s, p)}
             IN  IF starts = {} THEN NoMatch
                 ELSE LET p2 == SetMin(starts)
                      IN  <<first[1], SubSeq(s, p2, CommaNumberEnd(s, p2) - 1)>>

RatingWords == {"rating", "rated", "star", "stars"}

\* (?:rating|rated|stars?)\s*(?:cmp)\s*(\d+(?:\.\d+)?)
KwRating(s, i, cmp) ==
    LET afterWord == {SkipWs(s, e) : e \in KwEnds(s, i, RatingWords)}
        starts == {p \in {SkipWs(s, e) : e \in UNION {KwEnds(s, j, cmp) : j \in afterWord}} :
                     IsDigitAt(s, p)}
    IN  IF starts = {} THEN NoMatch
        ELSE LET p == SetMin(starts) IN <<SubSeq(s, p, DecimalEnd(s, p) - 1)>>

RatingAboveRegex(s, i) ==
    KwRating(s, i, {"above", "over", "more than", "greater than", "at least"})

RatingBelowRegex(s, i) ==
    KwRating(s, i, {"below", "under", "less than", "maximum", "max"})

\* (?:rating|rated|stars?)\s*(?:between|from)\s*(dec)\s*(?:and|to|-)\s*(dec)
RatingBetweenRegex(s, i) ==
    LET first == KwRating(s, i, RangeOpeners)
    IN  IF first = NoMatch THEN NoMatch
        ELSE LET afterWord == {SkipWs(s, e) : e \in KwEnds(s, i, RatingWords)}
                 p1 == SetMin({p \in {SkipWs(s, e) :
                                 e \in UNION {KwEnds(s, j, RangeOpeners) : j \in afterWord}} :
                                 IsDigitAt(s, p)})
                 j2 == SkipWs(s, DecimalEnd(s, p1))
                 starts == {p \in {SkipWs(s, e) : e \in KwEnds(s, j2, RangeJoiners)} :
                              IsDigitAt(s, p)}
             IN  IF starts = {} THEN NoMatch
                 ELSE LET p2 == SetMin(starts)
                      IN  <<first[1], SubSeq(s, p2, DecimalEnd(s, p2) - 1)>>

\* (\d+(?:\.\d+)?)\s*(?:star|stars?|rating|rated)
RatingBareRegex(s, i) ==
    IF IsDigitAt(s, i) /\ KwEnds(s, SkipWs(s, DecimalEnd(s, i)), RatingWords) # {}
    THEN <<SubSeq(s, i, DecimalEnd(s, i) - 1)>>
    ELSE NoMatch

\* (\d+)\s*credits?
CreditsBareRegex(s, i) ==
    IF IsDigitAt(s, i) /\ StartsAt(s, SkipWs(s, DigitsEnd(s, i)), "credit")
    THEN <<SubSeq(s, i, DigitsEnd(s, i) - 1)>>
    ELSE NoMatch

\* (?:kws)\s*(\d+)\s*credits?
KwCredits(s, i, kws) ==
    LET starts == {p \in {SkipWs(s, e) : e \in KwEnds(s, i, kws)} :
                     CreditsBareRegex(s, p) # NoMatch}
    IN  IF starts = {} THEN NoMatch ELSE CreditsBareRegex(s, SetMin(starts))

\* (?:between|from)\s*(\d+)\s*(?:and|to|-)\s*(\d+)\s*credits?
CreditsBetweenRegex(s, i) ==
    LET starts1 == {p \in {SkipWs(s, e) : e \in KwEnds(s, i, RangeOpeners)} :
                      IsDigitAt(s, p)}
    IN  IF starts1 = {} THEN NoMatch
        ELSE LET p1 == SetMin(starts1)
                 second == KwCredits(s, SkipWs(s, DigitsEnd(s, p1)), RangeJoiners)
             IN  IF second = NoMatch THEN NoMatch
                 ELSE <<SubSeq(s, p1, DigitsEnd(s, p1) - 1), second[1]>>

CreditsAtLeastRegex(s, i) == KwCredits(s, i, {"at least", "minimum", "min"})

CreditsAtMostRegex(s, i) == KwCredits(s, i, {"at most", "maximum", "max", "up to"})

\* (?:year|in)\s*(20\d{2})
YearRegex(s, i) ==
    LET starts == {p \in {SkipWs(s, e) : e \in KwEnds(s, i, {"year", "in"})} :
                     /\ StartsAt(s, p, "20")
                     /\ IsDigitAt(s, p + 2)
                     /\ IsDigitAt(s, p + 3)}
    IN  IF starts = {} THEN NoMatch
        ELSE LET p == SetMin(starts) IN <<SubSeq(s, p, p + 3)>>

\* ------------------------------------------------------------------------
\* parseNaturalLanguageQuery
\* ------------------------------------------------------------------------

EmptyMap == [k \in {} |-> Null]

Has(map, key) == key \in DOMAIN map

\* Object.assign(target, source)
Assign(target, source) ==
    [k \in DOMAIN target \cup DOMAIN source |->
        IF k \in DOMAIN source THEN source[k] ELSE target[k]]

deliveryModePatterns ==
    << <<"online", {"online", "remote", "virtual", "digital", "web-based", "internet",
                    "distance"}>>,
       <<"offline", {"offline", "physical", "in-person", "campus", "classroom",
                     "face-to-face", "onsite", "on-campus"}>>,
       <<"hybrid", {"hybrid", "blended", "mixed", "combined", "flexible"}>> >>

levelPatterns ==
    << <<"UG", {"undergraduate", "ug", "bachelor", "bachelors", "bachelor's", "btech",
                "bsc", "ba", "bcom", "undergrad", "under-graduate"}>>,
       <<"PG", {"postgraduate", "pg", "graduate", "master", "masters", "master's",
                "mtech", "msc", "ma", "mcom", "mba", "post-graduate", "postgrad"}>> >>

departmentKeywords ==
    << <<"Computer Science", {"computer", "programming", "software", "coding",
                              "algorithm", "data", "ai", "ml", "tech", "cs", "it"}>>,
       <<"Management", {"management", "business", "mba", "leadership", "strategy",
                        "operations", "mgt"}>>,
       <<"Electrical Engineering", {"electrical", "electronics", "circuit", "power",
                                    "signal", "ee", "eee"}>>,
       <<"Arts", {"arts", "literature", "philosophy", "history", "creative",
                  "humanities"}>>,
       <<"Design", {"design", "graphic", "ui", "ux", "visual", "creative", "art"}>>,
       <<"Law", {"law", "legal", "constitutional", "criminal", "commercial",
                 "judiciary"}>>,
       <<"Medicine", {"medicine", "medical", "health", "anatomy", "clinical", "doctor",
                      "healthcare"}>>,
       <<"Commerce", {"commerce", "finance", "accounting", "economics", "trade",
                      "business"}>> >>

stopWords ==
    {"i", "want", "to", "find", "search", "for", "show", "me", "get", "list", "of",
     "courses", "course", "in", "with", "that", "are", "is", "and", "or", "the",
     "a", "an", "some", "all", "any", "can", "you", "please", "help"}

allPatternWords ==
    UNION {deliveryModePatterns[i][2] : i \in 1..Len(deliveryModePatterns)}
      \cup UNION {levelPatterns[i][2] : i \in 1..Len(levelPatterns)}
      \cup UNION {departmentKeywords[i][2] : i \in 1..Len(departmentKeywords)}
      \cup {"rating", "rated", "star", "stars", "credit", "credits",
            "fee", "fees", "cost", "costs", "price", "year"}

\* for (const [name, patterns] of Object.entries(table)):
\*   if (patterns.some(p => lowerQuestion.includes(p))) { ...; break }
FirstFamily(lowerQuestion, table) ==
    LET hits == {i \in 1..Len(table) :
                   \E pattern \in table[i][2] : Includes(lowerQuestion, pattern)}
    IN  IF hits = {} THEN Null ELSE Some(table[SetMin(hits)][1])

FeeValue(group) == Dec(Val(ParseInt(RemoveCommas(group))))

\* fee handlers whose 'between' keeps the bounds in the order they are stated
feeRegexesAsStated(lowerQuestion) ==
    LET under == FirstMatch(lowerQuestion, FeeUnderRegex)
        above == FirstMatch(lowerQuestion, FeeAboveRegex)
        between == FirstMatch(lowerQuestion, FeeBetweenRegex)
        exact == FirstMatch(lowerQuestion, FeeExactRegex)
    IN  IF under # NoMatch THEN "max_fee" :> FeeValue(under[1])
        ELSE IF above # NoMatch THEN "min_fee" :> FeeValue(above[1])
        ELSE IF between # NoMatch
             THEN ("min_fee" :> FeeValue(between[1])) @@ ("max_fee" :> FeeValue(between[2]))
        ELSE IF exact # NoMatch
             THEN ("min_fee" :> FeeValue(exact[1])) @@ ("max_fee" :> FeeValue(exact[1]))
        ELSE EmptyMap

\* fee handlers without the break: every pattern that matches is applied,
\* in order
feeRegexesEveryShape(lowerQuestion) ==
    LET under == FirstMatch(lowerQuestion, FeeUnderRegex)
        above == FirstMatch(lowerQuestion, FeeAboveRegex)
        between == FirstMatch(lowerQuestion, FeeBetweenRegex)
        exact == FirstMatch(lowerQuestion, FeeExactRegex)
    IN  Assign(Assign(Assign(
            IF under # NoMatch THEN "max_fee" :> FeeValue(under[1]) ELSE EmptyMap,
            IF above # NoMatch THEN "min_fee" :> FeeValue(above[1]) ELSE EmptyMap),
            IF between # NoMatch
            THEN ("min_fee" :> Min2(FeeValue(between[1]), FeeValue(between[2])))
                   @@ ("max_fee" :> Max2(FeeValue(between[1]), FeeValue(between[2])))
            ELSE EmptyMap),
            IF exact # NoMatch
            THEN ("min_fee" :> FeeValue(exact[1])) @@ ("max_fee" :> FeeValue(exact[1]))
            ELSE EmptyMap)

\* the first fee pattern that matches, and its handler's result
feeRegexes(lowerQuestion) ==
    LET under == FirstMatch(lowerQuestion, FeeUnderRegex)
        above == FirstMatch(lowerQuestion, FeeAboveRegex)
        between == FirstMatch(lowerQuestion, FeeBetweenRegex)
        exact == FirstMatch(lowerQuestion, FeeExactRegex)
    IN  IF under # NoMatch THEN "max_fee" :> FeeValue(under[1])
        ELSE IF above # NoMatch THEN "min_fee" :> FeeValue(above[1])
        ELSE IF between # NoMatch
             THEN ("min_fee" :> Min2(FeeValue(between[1]), FeeValue(between[2])))
                  @@ ("max_fee" :> Max2(FeeValue(between[1]), FeeValue(between[2])))
        ELSE IF exact # NoMatch
             THEN ("min_fee" :> FeeValue(exact[1])) @@ ("max_fee" :> FeeValue(exact[1]))
        ELSE EmptyMap

RatingValue(group) == Val(ParseFloat(group))

ratingRegexes(lowerQuestion) ==
    LET above == FirstMatch(lowerQuestion, RatingAboveRegex)
        below == FirstMatch(lowerQuestion, RatingBelowRegex)
        between == FirstMatch(lowerQuestion, RatingBetweenRegex)
        bare == FirstMatch(lowerQuestion, RatingBareRegex)
    IN  IF above # NoMatch THEN "min_rating" :> RatingValue(above[1])
        ELSE IF below # NoMatch THEN "max_rating" :> RatingValue(below[1])
        ELSE IF between # NoMatch
             THEN ("min_rating" :> Min2(RatingValue(between[1]), RatingValue(between[2])))
                  @@ ("max_rating" :> Max2(RatingValue(between[1]), RatingValue(between[2])))
        ELSE IF bare # NoMatch THEN "min_rating" :> RatingValue(bare[1])
        ELSE EmptyMap

CreditsValue(group) == Val(ParseInt(group))

creditRegexes(lowerQuestion) ==
    LET bare == FirstMatch(lowerQuestion, CreditsBareRegex)
        between == FirstMatch(lowerQuestion, CreditsBetweenRegex)
        atLeast == FirstMatch(lowerQuestion, CreditsAtLeastRegex)
        atMost == FirstMatch(lowerQuestion, CreditsAtMostRegex)
    IN  IF bare # NoMatch
        THEN ("min_credits" :> CreditsValue(bare[1])) @@ ("max_credits" :> CreditsValue(bare[1]))
        ELSE IF between # NoMatch
             THEN ("min_credits" :> Min2(CreditsValue(between[1]), CreditsValue(between[2])))
                  @@ ("max_credits" :> Max2(CreditsValue(between[1]), CreditsValue(between[2])))
        ELSE IF atLeast # NoMatch THEN "min_credits" :> CreditsValue(atLeast[1])
        ELSE IF atMost # NoMatch THEN "max_credits" :> CreditsValue(atMost[1])
        ELSE EmptyMap

\* /^\d+$/.test(word)
IsNumberWord(word) == word # "" /\ DigitsEnd(word, 1) = Len(word) + 1

\* a filter that keeps the short words
IsSearchTermAnyLength(word) ==
    /\ word \notin stopWords
    /\ ~IsNumberWord(word)
    /\ word \notin allPatternWords

IsSearchTerm(word) ==
    /\ word \notin stopWords
    /\ ~IsNumberWord(word)
    /\ Len(word) > 2
    /\ word \notin allPatternWords

\* a key that is set whether or not a pattern matched
OptionalKeyAlways(key, value) == key :> (IF IsSet(value) THEN Val(value) ELSE "")

OptionalKey(key, value) == IF IsSet(value) THEN key :> Val(value) ELSE EmptyMap

parseNaturalLanguageQuery(question) ==
    LET lowerQuestion == Trim(ToLowerCase(question))
        yearMatch == FirstMatch(lowerQuestion, YearRegex)
        searchTerms == SelectSeq(SplitWs(lowerQuestion), IsSearchTerm)
    IN  Assign(Assign(Assign(Assign(Assign(Assign(Assign(
            OptionalKey("delivery_mode", FirstFamily(lowerQuestion, deliveryModePatterns)),
            OptionalKey("level", FirstFamily(lowerQuestion, levelPatterns))),
            feeRegexes(lowerQuestion)),
            ratingRegexes(lowerQuestion)),
            creditRegexes(lowerQuestion)),
            OptionalKey("department", FirstFamily(lowerQuestion, departmentKeywords))),
            IF yearMatch # NoMatch THEN "year_offered" :> Val(ParseInt(yearMatch[1]))
            ELSE EmptyMap),
            IF Len(searchTerms) > 0 THEN "q" :> Join(searchTerms, " ") ELSE EmptyMap)

\* ------------------------------------------------------------------------
\* The row store: the courses table and the statements the handlers send it
\* ------------------------------------------------------------------------

\* A row of the courses table.  course_id is the primary key; the columns the
\* ingestion may leave NULL (credits, rating, tuition_fee_inr) are optional
\* values.  rating and tuition_fee_inr are in tenths.
Row(id, name, dept, level, mode, credits, weeks, rating, fee, year) ==
    [course_id |-> id, course_name |-> name, department |-> dept, level |-> level,
     delivery_mode |-> mode, credits |-> credits, duration_weeks |-> weeks,
     rating |-> rating, tuition_fee_inr |-> fee, year_offered |-> year]

\* The rows an ingestion may upsert; the first two are in the table from the
\* start.
Catalog ==
    {Row("A", "Python Basics", "Computer Science", "UG", "online",
         Some(4), 8, Some(45), Some(Dec(400)), 2024),
     Row("B", "Contract Law", "Law", "PG", "offline",
         Some(10), 12, Some(30), Some(Dec(900)), 2023),
     Row("C", "Data Mining", "Computer Science", "PG", "online",
         Some(4), 8, Null, Some(Dec(500)), 2024),
     Row("D", "Sketching", "Design", "UG", "hybrid",
         Null, 6, Null, Null, 2022)}

InitialRows == {row \in Catalog : row.course_id \in {"A", "B"}}

\* The collating order of the characters that occur in the rows.
Collation == " -.,0123456789ABCDEFGHIJKLMNOPQRSTUVWXYZabcdefghijklmnopqrstuvwxyz"

CharRank(c) ==
    IF \E i \in 1..Len(Collation) : CharAt(Collation, i) = c
    THEN CHOOSE i \in 1..Len(Collation) : CharAt(Collation, i) = c
    ELSE 0

RECURSIVE StrLess(_, _)
StrLess(a, b) ==
    IF b = "" THEN FALSE
    ELSE IF a = "" THEN TRUE
    ELSE IF Head(a) = Head(b) THEN StrLess(Tail(a), Tail(b))
    ELSE CharRank(Head(a)) < CharRank(Head(b))

\* value ILIKE pattern, for the patterns the handlers build: %text% or text
ILike(value, pattern) ==
    LET v == ToLowerCase(value)
        pat == ToLowerCase(pattern)
    IN  IF Len(pat) >= 2 /\ StartsAt(pat, 1, "%") /\ StartsAt(pat, Len(pat), "%")
        THEN Includes(v, SubSeq(pat, 2, Len(pat) - 1))
        ELSE v = pat

TextColumns == {"course_id", "course_name", "department", "level", "delivery_mode"}

NullableColumns == {"credits", "rating", "tuition_fee_inr"}

\* the value of a column as an optional value (NULL is Null)
Column(row, column) ==
    IF column \in NullableColumns THEN row[column] ELSE Some(row[column])

\* One predicate fragment of a WHERE clause: the columns it reads, its
\* operator and the placeholder numbers ($n) it refers to, in textual order.
Fragment(columns, op, placeholders) ==
    [columns |-> columns, op |-> op, placeholders |-> placeholders]

\* column op $n against a row; a comparison with NULL is not true
Compare(row, column, op, param) ==
    LET v == Column(row, column)
    IN  /\ IsSet(v)
        /\ IsSet(param)
        /\ CASE op = "ILIKE" -> ILike(Val(v), Val(param))
             [] op = "=" -> Val(v) = Val(param)
             [] op = ">=" -> Val(v) >= Val(param)
             [] op = "<=" -> Val(v) <= Val(param)

\* a fragment against a row: its columns, each against its placeholder, OR-ed
FragmentHolds(row, fragment, params) ==
    \E k \in 1..Len(fragment.columns) :
        Compare(row, fragment.columns[k], fragment.op, params[fragment.placeholders[k]])

\* WHERE fragment AND fragment ...; no fragment, no WHERE clause
Matching(rows, where, params) ==
    {row \in rows : \A i \in 1..Len(where) : FragmentHolds(row, where[i], params)}

\* the placeholder numbers a statement refers to
Referenced(query) ==
    UNION {Range(query.where[i].placeholders) : i \in 1..Len(query.where)}
      \cup {query.caseOrder[i][1] : i \in 1..Len(query.caseOrder)}
      \cup Range(query.paging)

TableColumns ==
    {"course_id", "course_name", "department", "level", "delivery_mode", "credits",
     "duration_weeks", "rating", "tuition_fee_inr", "year_offered"}

\* The store runs a statement only when the parameters it is given are
\* exactly the placeholders $1..$n the text refers to, when ORDER BY names a
\* column (the direction may be left out), and when OFFSET is not negative.
Prepares(query) ==
    /\ Referenced(query) = 1..Len(query.params)
    /\ \A i \in 1..Len(query.order) :
          /\ query.order[i][1] \in TableColumns
          /\ query.order[i][2] \in {"ASC", "DESC", ""}
    /\ query.paging # <<>> =>
          LET offset == query.params[query.paging[2]]
          IN  IsSet(offset) => Val(offset) >= 0

\* rows sorted by an ORDER BY list of <<column, direction>>; NULLs sort as
\* larger than every value
ColumnLess(a, b, column) ==
    LET x == Column(a, column)
        y == Column(b, column)
    IN  IF ~IsSet(x) THEN FALSE
        ELSE IF ~IsSet(y) THEN TRUE
        ELSE IF column \in TextColumns THEN StrLess(Val(x), Val(y))
        ELSE Val(x) < Val(y)

RECURSIVE OrderedBefore(_, _, _)
OrderedBefore(a, b, order) ==
    IF order = <<>> THEN FALSE
    ELSE LET column == order[1][1]
             lt == IF order[1][2] = "DESC" THEN ColumnLess(b, a, column)
                   ELSE ColumnLess(a, b, column)
             gt == IF order[1][2] = "DESC" THEN ColumnLess(a, b, column)
                   ELSE ColumnLess(b, a, column)
         IN  lt \/ (~gt /\ OrderedBefore(a, b, Tail(order)))

\* the orderings of a set of rows
Orderings(rows) ==
    {seq \in [1..Cardinality(rows) -> rows] : Range(seq) = rows}

\* the orderings ORDER BY allows: no row before one it must follow
SortedOrderings(rows, order) ==
    {seq \in Orderings(rows) :
        \A i, j \in 1..Len(seq) : i < j => ~OrderedBefore(seq[j], seq[i], order)}

\* LIMIT limit OFFSET offset; LIMIT NULL is no limit
Page(seq, limit, offset) ==
    LET from == (IF IsSet(offset) THEN Val(offset) ELSE 0) + 1
        to == IF IsSet(limit) THEN Min2(Len(seq), from - 1 + Val(limit)) ELSE Len(seq)
    IN  SubSeq(seq, from, to)

\* the decimal digits of a count, as the store returns COUNT(*)
RECURSIVE NumberToString(_)
NumberToString(n) ==
    IF n < 10 THEN CHOOSE c \in Digits : DigitVal[c] = n
    ELSE NumberToString(n \div 10) \o (CHOOSE c \in Digits : DigitVal[c] = n % 10)

\* ------------------------------------------------------------------------
\* The query compilers
\* ------------------------------------------------------------------------

\* conditions, queryParams and paramCounter of the handler that serves the
\* request
VARIABLE builder

\* a paramCounter declared outside the handler: it starts where the request
\* before left it
NewBuilderKeepsCounter ==
    [conditions |-> <<>>, queryParams |-> <<>>, paramCounter |-> builder.paramCounter]

\* conditions, queryParams and paramCounter as the handlers start them
NewBuilder == [conditions |-> <<>>, queryParams |-> <<>>, paramCounter |-> 1]

\* a push that leaves paramCounter as it was
AddConditionSameNumber(b, columns, op, value) ==
    [conditions |-> Append(b.conditions,
                           Fragment(columns, op, [k \in 1..Len(columns) |-> b.paramCounter])),
     queryParams |-> Append(b.queryParams, Some(value)),
     paramCounter |-> b.paramCounter]

\* conditions.push(`... $${paramCounter} ...`); queryParams.push(value);
\* paramCounter++  (every column of the fragment is matched against the same
\* placeholder $paramCounter)
AddCondition(b, columns, op, value) ==
    [conditions |-> Append(b.conditions,
                           Fragment(columns, op, [k \in 1..Len(columns) |-> b.paramCounter])),
     queryParams |-> Append(b.queryParams, Some(value)),
     paramCounter |-> b.paramCounter + 1]

\* if (condition) { conditions.push(...); queryParams.push(value); paramCounter++ }
AddConditionIf(condition, b, columns, op, value) ==
    IF condition THEN AddCondition(b, columns, op, value) ELSE b

\* a statement as db.query receives it
Statement(kind, where, params, order, caseOrder, paging) ==
    [kind |-> kind, where |-> where, params |-> params, order |-> order,
     caseOrder |-> caseOrder, paging |-> paging]

\* SELECT COUNT(*) FROM courses ${whereClause}, with queryParams
CountQuery(b) == Statement("count", b.conditions, b.queryParams, <<>>, <<>>, <<>>)

\* SELECT ... ${whereClause} ORDER BY ... LIMIT $${paramCounter} OFFSET
\* $${paramCounter + 1}, with [...queryParams, perPage, offset]
MainQuery(b, order, perPage, offset) ==
    Statement("select", b.conditions, b.queryParams \o <<perPage, offset>>, order, <<>>,
              <<b.paramCounter, b.paramCounter + 1>>)

\* executeFilteredQuery, up to the WHERE clause: the filters of the free-text
\* path, in the order the code appends them
AskConditions(filters) ==
    LET b1 == AddConditionIf(Has(filters, "q") /\ filters["q"] # "", NewBuilder,
                   <<"course_name", "department">>, "ILIKE", "%" \o filters["q"] \o "%")
        b2 == AddConditionIf(Has(filters, "department") /\ filters["department"] # "", b1,
                   <<"department">>, "ILIKE", "%" \o filters["department"] \o "%")
        b3 == AddConditionIf(Has(filters, "level") /\ filters["level"] # "", b2,
                   <<"level">>, "=", filters["level"])
        b4 == AddConditionIf(Has(filters, "delivery_mode") /\ filters["delivery_mode"] # "", b3,
                   <<"delivery_mode">>, "=", filters["delivery_mode"])
        b5 == AddConditionIf(Has(filters, "year_offered") /\ filters["year_offered"] # 0, b4,
                   <<"year_offered">>, "=", filters["year_offered"])
        b6 == AddConditionIf(Has(filters, "min_fee"), b5,
                   <<"tuition_fee_inr">>, ">=", filters["min_fee"])
        b7 == AddConditionIf(Has(filters, "max_fee"), b6,
                   <<"tuition_fee_inr">>, "<=", filters["max_fee"])
        b8 == AddConditionIf(Has(filters, "min_rating"), b7,
                   <<"rating">>, ">=", filters["min_rating"])
        b9 == AddConditionIf(Has(filters, "max_rating"), b8,
                   <<"rating">>, "<=", filters["max_rating"])
        b10 == AddConditionIf(Has(filters, "min_credits"), b9,
                   <<"credits">>, ">=", filters["min_credits"])
        b11 == AddConditionIf(Has(filters, "max_credits"), b10,
                   <<"credits">>, "<=", filters["max_credits"])
    IN  b11

\* ORDER BY rating DESC, course_name ASC
AskOrder == << <<"rating", "DESC">>, <<"course_name", "ASC">> >>

\* ------------------------------------------------------------------------
\* GET /courses: validation
\* ------------------------------------------------------------------------

\* a query-string parameter: Null when it is not given
Param(query, key) == IF Has(query, key) THEN Some(query[key]) ELSE Null

\* a parameter with its destructuring default
ParamOr(query, key, default) == IF Has(query, key) THEN query[key] ELSE default

Valid(value) == [error |-> "", value |-> value]

Thrown(message) == [error |-> message, value |-> Null]

\* the bound as the message prints it: bounds of validateNumber are in tenths
BoundText(bound, tenths) ==
    NumberToString(IF tenths THEN Whole(Val(bound)) ELSE Val(bound))

\* if (min !== null && num < min) throw ...; if (max !== null && num > max)
\* throw ...; return num
WithinBounds(num, name, min, max, tenths) ==
    IF IsSet(min) /\ Val(num) < Val(min)
    THEN Thrown("Invalid " \o name \o ": must be >= " \o BoundText(min, tenths))
    ELSE IF IsSet(max) /\ Val(num) > Val(max)
    THEN Thrown("Invalid " \o name \o ": must be <= " \o BoundText(max, tenths))
    ELSE Valid(num)

\* if (isNaN(num)) throw ..., then the bounds
NumberOrThrown(num, name, min, max) ==
    IF num = Null THEN Thrown("Invalid " \o name \o ": must be a number")
    ELSE WithinBounds(num, name, min, max, TRUE)

\* validateNumber(value, name, min, max); value is Null, or Some(text)
validateNumber(value, name, min, max) ==
    IF value = Null \/ value = Some("") THEN Valid(Null)
    ELSE NumberOrThrown(ParseFloat(Val(value)), name, min, max)

\* if (isNaN(num) || !Number.isInteger(parseFloat(value))) throw ..., then
\* the bounds
IntegerOrThrown(num, float, name, min, max) ==
    IF num = Null \/ float = Null \/ ~IsWhole(Val(float))
    THEN Thrown("Invalid " \o name \o ": must be an integer")
    ELSE WithinBounds(num, name, min, max, FALSE)

\* validateInteger(value, name, min, max)
validateInteger(value, name, min, max) ==
    IF value = Null \/ value = Some("") THEN Valid(Null)
    ELSE IntegerOrThrown(ParseInt(Val(value)), ParseFloat(Val(value)), name, min, max)

\* the initialisers of validatedParams, in the order they are evaluated
validations(query) ==
    << <<"min_fee", validateNumber(Param(query, "min_fee"), "min_fee", Some(Dec(0)), Null)>>,
       <<"max_fee", validateNumber(Param(query, "max_fee"), "max_fee", Some(Dec(0)), Null)>>,
       <<"min_rating", validateNumber(Param(query, "min_rating"), "min_rating",
                                      Some(Dec(0)), Some(Dec(5)))>>,
       <<"max_rating", validateNumber(Param(query, "max_rating"), "max_rating",
                                      Some(Dec(0)), Some(Dec(5)))>>,
       <<"min_credits", validateInteger(Param(query, "min_credits"), "min_credits",
                                        Some(1), Null)>>,
       <<"max_credits", validateInteger(Param(query, "max_credits"), "max_credits",
                                        Some(1), Null)>>,
       <<"min_duration_weeks", validateInteger(Param(query, "min_duration_weeks"),
                                               "min_duration_weeks", Some(1), Null)>>,
       <<"max_duration_weeks", validateInteger(Param(query, "max_duration_weeks"),
                                               "max_duration_weeks", Some(1), Null)>>,
       <<"year_offered", validateInteger(Param(query, "year_offered"), "year_offered",
                                         Some(1900), Some(2100))>>,
       <<"page", validateInteger(Some(ParamOr(query, "page", "1")), "page", Some(1), Null)>>,
       <<"per_page", validateInteger(Some(ParamOr(query, "per_page", "10")), "per_page",
                                     Some(1), Some(100))>> >>

\* the message of the first initialiser that throws, "" when none does
FirstThrown(v) ==
    IF \A i \in 1..Len(v) : v[i][2].error = "" THEN ""
    ELSE v[SetMin({i \in 1..Len(v) : v[i][2].error # ""})][2].error

validationError(query) == FirstThrown(validations(query))

\* the object the initialisers build
Initialised(v) ==
    [name \in {v[i][1] : i \in 1..Len(v)} |->
        (v[CHOOSE i \in 1..Len(v) : v[i][1] = name][2]).value]

\* validatedParams: each name with its value, null (Null) when not given
validatedParams(query) == Initialised(validations(query))

validLevels == {"UG", "PG"}

validDeliveryModes == {"online", "offline", "hybrid"}

validSortColumns ==
    {"rating", "tuition_fee_inr", "credits", "duration_weeks", "course_id", "course_name",
     "year_offered"}

validSortDirections == {"asc", "desc"}

\* the enum checks of step 3: the error of the first that fails, "" when none
enumError(query) ==
    LET sort_by == ParamOr(query, "sort_by", "course_id")
        sort_dir == ParamOr(query, "sort_dir", "asc")
    IN  IF Has(query, "level") /\ query["level"] # ""
           /\ ToUpperCase(query["level"]) \notin validLevels
        THEN "Invalid level parameter"
        ELSE IF Has(query, "delivery_mode") /\ query["delivery_mode"] # ""
                /\ ToLowerCase(query["delivery_mode"]) \notin validDeliveryModes
        THEN "Invalid delivery_mode parameter"
        ELSE IF sort_by # "" /\ sort_by \notin validSortColumns
        THEN "Invalid sort_by parameter"
        ELSE IF sort_dir # "" /\ ToLowerCase(sort_dir) \notin validSortDirections
        THEN "Invalid sort_dir parameter"
        ELSE ""

\* step 4 of GET /courses: the WHERE clause from the query string and
\* validatedParams, in the order the code appends the fragments
CoursesConditions(query, vp) ==
    LET b1 == AddConditionIf(Has(query, "q") /\ Trim(query["q"]) # "", NewBuilder,
                   <<"course_name", "department">>, "ILIKE", "%" \o Trim(query["q"]) \o "%")
        b2 == AddConditionIf(Has(query, "department") /\ Trim(query["department"]) # "", b1,
                   <<"department">>, "ILIKE", Trim(query["department"]))
        b3 == AddConditionIf(Has(query, "level") /\ query["level"] # "", b2,
                   <<"level">>, "=", ToUpperCase(query["level"]))
        b4 == AddConditionIf(Has(query, "delivery_mode") /\ query["delivery_mode"] # "", b3,
                   <<"delivery_mode">>, "=", ToLowerCase(query["delivery_mode"]))
        b5 == AddConditionIf(Has(query, "year_offered") /\ query["year_offered"] # "", b4,
                   <<"year_offered">>, "=", Val(vp["year_offered"]))
        b6 == AddConditionIf(IsSet(vp["min_fee"]), b5,
                   <<"tuition_fee_inr">>, ">=", Val(vp["min_fee"]))
        b7 == AddConditionIf(IsSet(vp["max_fee"]), b6,
                   <<"tuition_fee_inr">>, "<=", Val(vp["max_fee"]))
        b8 == AddConditionIf(IsSet(vp["min_rating"]), b7,
                   <<"rating">>, ">=", Val(vp["min_rating"]))
        b9 == AddConditionIf(IsSet(vp["max_rating"]), b8,
                   <<"rating">>, "<=", Val(vp["max_rating"]))
        b10 == AddConditionIf(IsSet(vp["min_credits"]), b9,
                   <<"credits">>, ">=", Val(vp["min_credits"]))
        b11 == AddConditionIf(IsSet(vp["max_credits"]), b10,
                   <<"credits">>, "<=", Val(vp["max_credits"]))
        b12 == AddConditionIf(IsSet(vp["min_duration_weeks"]), b11,
                   <<"duration_weeks">>, ">=", Val(vp["min_duration_weeks"]))
        b13 == AddConditionIf(IsSet(vp["max_duration_weeks"]), b12,
                   <<"duration_weeks">>, "<=", Val(vp["max_duration_weeks"]))
    IN  b13

\* ORDER BY ${sort_by} ${sort_dir.toUpperCase()}
CoursesOrder(query) ==
    << <<ParamOr(query, "sort_by", "course_id"),
         ToUpperCase(ParamOr(query, "sort_dir", "asc"))>> >>

\* ------------------------------------------------------------------------
\* Pagination
\* ------------------------------------------------------------------------

\* a null operand of an arithmetic expression is 0
ToNumber(o) == IF IsSet(o) THEN Val(o) ELSE 0

\* Math.floor in the place of Math.ceil
MathFloorDiv(totalCount, perPage) ==
    IF perPage = 0 THEN Null ELSE Some(totalCount \div perPage)

\* Math.ceil(totalCount / perPage); a division by 0 gives Infinity or NaN,
\* which JSON writes as null
MathCeilDiv(totalCount, perPage) ==
    IF perPage = 0 THEN Null
    ELSE Some((totalCount + perPage - 1) \div perPage)

\* page < totalPages, where totalPages may be Infinity (a positive count
\* over 0) or NaN (0 over 0)
LessThanPages(page, totalPages, totalCount) ==
    IF IsSet(totalPages) THEN page < Val(totalPages) ELSE totalCount > 0

\* (page - 1) * perPage
Offset(page, perPage) == (ToNumber(page) - 1) * ToNumber(perPage)

\* the meta object both search handlers return
Meta(totalCount, page, perPage) ==
    LET totalPages == MathCeilDiv(totalCount, ToNumber(perPage))
    IN  [total_count |-> totalCount,
         page |-> page,
         per_page |-> perPage,
         total_pages |-> totalPages,
         has_next_page |-> LessThanPages(ToNumber(page), totalPages, totalCount),
         has_prev_page |-> ToNumber(page) > 1]

\* parseInt(value) || fallback
ParseIntOr(value, fallback) ==
    LET n == ParseInt(value)
    IN  IF n = Null \/ Val(n) = 0 THEN fallback ELSE Val(n)

\* Math.max(1, parseInt(page) || 1)
AskPageNum(body) == Max2(1, ParseIntOr(ParamOr(body, "page", "1"), 1))

\* Math.min(100, Math.max(1, parseInt(per_page) || 10))
AskPerPage(body) == Min2(100, Max2(1, ParseIntOr(ParamOr(body, "per_page", "10"), 10)))

\* Number.prototype.toString of a number held in tenths
DecToString(d) ==
    NumberToString(Whole(d))
      \o (IF IsWhole(d) THEN "" ELSE "." \o NumberToString(d % 10))

\* the data of the free-text response: rating as a string, the fee cut to
\* an integer by parseInt
AskCourse(row) ==
    [row EXCEPT !.rating = DecToString(Val(row.rating)),
                !.tuition_fee_inr = IF IsSet(@) THEN Some(Dec(Whole(Val(@)))) ELSE Null]

\* ------------------------------------------------------------------------
\* GET /compare
\* ------------------------------------------------------------------------

RECURSIVE MapTrim(_)
MapTrim(seq) == IF seq = <<>> THEN <<>> ELSE <<Trim(Head(seq))>> \o MapTrim(Tail(seq))

NotEmpty(id) == id # ""

\* ids.split(',').map(id => id.trim()).filter(id => id !== '')
ParseIds(ids) == SelectSeq(MapTrim(Split(ids, ",")), NotEmpty)

\* a list that keeps its repeated elements
UniqueKeepsAll(seq) == seq

\* [...new Set(seq)]: the first occurrence of each element, in order
RECURSIVE Unique(_)
Unique(seq) ==
    IF seq = <<>> THEN <<>>
    ELSE LET init == Unique(SubSeq(seq, 1, Len(seq) - 1))
             last == seq[Len(seq)]
         IN  IF last \in Range(init) THEN init ELSE Append(init, last)

\* the cap on courseIds.length
MaxCompareIds == 4

\* WHERE course_id IN ($1, ..., $n) ORDER BY CASE course_id WHEN $i THEN i ...
\* ELSE n + 1 END, with uniqueIds as parameters
CompareQuery(uniqueIds) ==
    LET n == Len(uniqueIds)
    IN  Statement("compare",
                  <<Fragment([k \in 1..n |-> "course_id"], "=", [k \in 1..n |-> k])>>,
                  [i \in 1..n |-> Some(uniqueIds[i])],
                  <<>>,
                  [i \in 1..n |-> <<i, i>>],
                  <<>>)

\* the value of the CASE expression for a row: the first WHEN that matches
CaseRank(row, query) ==
    LET hits == {i \in 1..Len(query.caseOrder) :
                   query.params[query.caseOrder[i][1]] = Some(row.course_id)}
    IN  IF hits = {} THEN Len(query.caseOrder) + 1
        ELSE query.caseOrder[SetMin(hits)][2]

\* the orderings of a statement without ORDER BY
AnyOrderings(rows, query) == Orderings(rows)

\* the orderings ORDER BY CASE ... END allows
CaseOrderings(rows, query) ==
    {seq \in Orderings(rows) :
        \A i, j \in 1..Len(seq) : i < j => CaseRank(seq[i], query) <= CaseRank(seq[j], query)}

RECURSIVE SumSeq(_)
SumSeq(seq) == IF seq = <<>> THEN 0 ELSE Head(seq) + SumSeq(Tail(seq))

SetMax(S) == CHOOSE x \in S : \A y \in S : x >= y

\* Math.round(a / b) for a >= 0, b > 0
RoundDiv(a, b) == (2 * a + b) \div (2 * b)

\* the values of a column over the courses, a null one counted as 0
ValuesNullAsZero(courses, column) ==
    [i \in 1..Len(courses) |->
        IF IsSet(courses[i][column]) THEN Val(courses[i][column]) ELSE 0]

\* the values of a column over the courses, null ones left out
Values(courses, column) ==
    LET present == SelectSeq([i \in 1..Len(courses) |-> courses[i][column]], IsSet)
    IN  [i \in 1..Len(present) |-> Val(present[i])]

NullRange == [min |-> Null, max |-> Null, avg |-> Null]

\* min, max and avg of a list of values; avg is computed by Average
StatRange(values, Average(_)) ==
    IF Len(values) > 0
    THEN [min |-> Some(SetMin(Range(values))), max |-> Some(SetMax(Range(values))),
          avg |-> Some(Average(values))]
    ELSE NullRange

\* Math.round(sum / length), in tenths
FeeAverage(fees) == Dec(RoundDiv(SumSeq(fees), Dec(Len(fees))))

\* Math.round((sum / length) * 10) / 10 of ratings, in tenths
RatingAverage(ratings) == RoundDiv(SumSeq(ratings), Len(ratings))

\* Math.round((sum / length) * 10) / 10 of credits, in tenths
CreditsAverage(credits) == RoundDiv(Dec(SumSeq(credits)), Len(credits))

generateComparisonInsights(courses) ==
    [fee_range |-> StatRange(Values(courses, "tuition_fee_inr"), FeeAverage),
     rating_range |-> StatRange(Values(courses, "rating"), RatingAverage),
     credits_range |-> StatRange(Values(courses, "credits"), CreditsAverage),
     levels |-> Unique([i \in 1..Len(courses) |-> courses[i].level]),
     delivery_modes |-> Unique([i \in 1..Len(courses) |-> courses[i].delivery_mode]),
     departments |-> Unique([i \in 1..Len(courses) |-> courses[i].department])]

\* steps 6 to 9 of GET /compare: the response body for the rows found
CompareBody(uniqueIds, foundCourses) ==
    LET foundIds == [i \in 1..Len(foundCourses) |-> foundCourses[i].course_id]
        NotFound(id) == id \notin Range(foundIds)
        missingIds == SelectSeq(uniqueIds, NotFound)
        base == ("courses" :> foundCourses)
                  @@ ("missing_ids" :> missingIds)
                  @@ ("meta" :> [requested_count |-> Len(uniqueIds),
                                 found_count |-> Len(foundCourses),
                                 missing_count |-> Len(missingIds)])
    IN  IF Len(foundCourses) > 1
        THEN base @@ ("insights" :> generateComparisonInsights(foundCourses))
        ELSE base

\* ------------------------------------------------------------------------
\* Requests
\* ------------------------------------------------------------------------

\* the maps with at most n of the keys set, each to one of its values
MapsOver(keys, values, n) ==
    UNION {{m \in [set -> UNION {values[k] : k \in set}] : \A k \in set : m[k] \in values[k]} :
              set \in {chosen \in SUBSET keys : Cardinality(chosen) <= n}}

\* the sequences of 1 to n elements of S
RECURSIVE SeqsUpTo(_, _)
SeqsUpTo(S, n) ==
    IF n = 0 THEN {}
    ELSE LET shorter == SeqsUpTo(S, n - 1)
         IN  {<<x>> : x \in S} \cup shorter \cup {Append(q, x) : q \in shorter, x \in S}

MaxParams == 2

MaxIds == 5

\* the query-string parameters of GET /courses and the values tried for each
CoursesParamValues ==
    [q |-> {"data", " "},
     department |-> {"law"},
     level |-> {"pg", "XX"},
     delivery_mode |-> {"Online", "bad"},
     min_fee |-> {"450", "abc"},
     max_fee |-> {"400.5", "-1"},
     min_rating |-> {"4.5", "9"},
     max_rating |-> {"3", ""},
     min_credits |-> {"10", "0"},
     max_credits |-> {"4", "4.5"},
     min_duration_weeks |-> {"9"},
     max_duration_weeks |-> {"8", "x"},
     year_offered |-> {"2024", "1800"},
     page |-> {"2", "", "0"},
     per_page |-> {"1", "", "101"},
     sort_by |-> {"rating", "bogus", ""},
     sort_dir |-> {"DESC", "up", ""}]

CoursesQueries == MapsOver(DOMAIN CoursesParamValues, CoursesParamValues, MaxParams)

\* the bodies of POST /ask
AskQuestions ==
    {"", "show me all courses", "online postgraduate management courses rated above 4",
     "courses rated above 9", "0 credits", "law between 900 and 300",
     "rated between 5 and 3", "Python", "data in 2024", "between 10 and 4 credits",
     "under 450 UG", "4.5 stars"}

AskParamValues ==
    [question |-> AskQuestions, page |-> {"2", "0", "abc"}, per_page |-> {"1", "2", "500"}]

AskBodies == MapsOver(DOMAIN AskParamValues, AskParamValues, Cardinality(DOMAIN AskParamValues))

\* the ids parameter of GET /compare: course ids joined by commas, and some
\* texts with blank pieces
CourseIds == {"A", "B", "C", "D", "E"}

CompareRequests ==
    {EmptyMap}
      \cup {"ids" :> ids : ids \in {"", " ", ",", " , ,", " C ,, A,C ", ",B"}}
      \cup {"ids" :> Join(tokens, ",") : tokens \in SeqsUpTo(CourseIds, MaxIds)}

\* ------------------------------------------------------------------------
\* State
\* ------------------------------------------------------------------------

VARIABLES
    store,        \* the rows of the courses table
    route,        \* the handler that serves the request: ask, courses, compare
    pc,           \* idle, count / select / compare (a statement awaited), done
    request,      \* req.body (ask) or req.query (courses, compare)
    filters,      \* ask: the result of parseNaturalLanguageQuery
    vparams,      \* courses: validatedParams; ask: pageNum and perPage
    uniqueIds,    \* compare: uniqueIds
    sent,         \* the statements passed to db.query for this request, in order
    totalCount,   \* totalCount, once the COUNT statement has resolved
    response,     \* the response sent: status and body
    served,       \* the requests served before this one, with their statements
    compareList,  \* frontend: the compare list of CompareProvider
    renderedList, \* frontend: compareList as of the last render of the provider
    search,       \* frontend: the state of SearchPage and its fetches in flight
    process,      \* the server process: HTTP server, pool, exit
    ingest        \* POST /ingest: the records, the loop index and the counters

vars == <<store, route, pc, request, filters, vparams, uniqueIds, builder, sent,
          totalCount, response, served, compareList, renderedList, search, process,
          ingest>>

NoResponse == [status |-> 0, body |-> EmptyMap]

Respond(status, body) == [status |-> status, body |-> body]

\* SearchPage before the user has searched: the useState initial values, and
\* no fetch in flight
NewSearchPage ==
    [courses |-> <<>>, loading |-> FALSE, error |-> FALSE, filters |-> EmptyMap,
     currentPage |-> 1, totalPages |-> 1, totalResults |-> 0, hasSearched |-> FALSE,
     inFlight |-> {}]

\* the server process once startServer has run: the HTTP server listens, the
\* pool is open, pool.end has not been called, no shutdown callback is
\* pending, the process has not exited
NewProcess ==
    [server |-> "listening", pool |-> "open", ends |-> 0, signals |-> 0,
     pending |-> {}, exit |-> Null]

\* no ingest request has been received
NoIngest ==
    [pc |-> "idle", records |-> <<>>, i |-> 0, inserted |-> 0, updated |-> 0,
     failed |-> 0, failedRows |-> <<>>, response |-> NoResponse]

Init ==
    /\ store = InitialRows
    /\ route = "none"
    /\ pc = "idle"
    /\ request = EmptyMap
    /\ filters = EmptyMap
    /\ vparams = EmptyMap
    /\ uniqueIds = <<>>
    /\ builder = [conditions |-> <<>>, queryParams |-> <<>>, paramCounter |-> 1]
    /\ sent = <<>>
    /\ totalCount = 0
    /\ response = NoResponse
    /\ served = <<>>
    /\ compareList = <<>>
    /\ renderedList = <<>>
    /\ search = NewSearchPage
    /\ process = NewProcess
    /\ ingest = NoIngest

\* the statement the handler awaits
Awaited == sent[Len(sent)]

\* ------------------------------------------------------------------------
\* Ingestion: the upsert of one record (routes/ingest.js, step 8)
\* ------------------------------------------------------------------------

\* INSERT ... ON CONFLICT (course_id) DO UPDATE
Upserted(rows, row) == {r \in rows : r.course_id # row.course_id} \cup {row}

Upsert(row) ==
    /\ pc # "done"
    /\ store' = Upserted(store, row)
    /\ store' # store
    /\ UNCHANGED <<route, pc, request, filters, vparams, uniqueIds, builder, sent,
                   totalCount, response, compareList>>
    /\ UNCHANGED <<served, renderedList, search, process, ingest>>

\* ------------------------------------------------------------------------
\* POST /ask
\* ------------------------------------------------------------------------

\* the handler up to its first await: the question is parsed, the WHERE
\* clause compiled and the COUNT statement sent
AskReceive(body) ==
    /\ pc = "idle"
    /\ route' = "ask"
    /\ request' = body
    /\ IF ~Has(body, "question") \/ body["question"] = ""
       THEN /\ response' = Respond(400, "error" :> "Missing question")
            /\ pc' = "done"
            /\ UNCHANGED <<filters, vparams, builder, sent>>
       ELSE /\ vparams' = [page |-> Some(AskPageNum(body)),
                           per_page |-> Some(AskPerPage(body))]
            /\ filters' = parseNaturalLanguageQuery(body["question"])
            /\ builder' = AskConditions(filters')
            /\ sent' = <<CountQuery(builder')>>
            /\ pc' = "count"
            /\ UNCHANGED response
    /\ UNCHANGED <<store, uniqueIds, totalCount, compareList>>
    /\ UNCHANGED <<served, renderedList, search, process, ingest>>

\* the catch of executeFilteredQuery rethrows; the catch of the route answers
AskFailure(message) ==
    Respond(500, ("error" :> "Server error")
                   @@ ("details" :> "Database query failed: " \o message)
                   @@ ("question" :> request["question"]))

\* the COUNT statement resolves: the pagination is computed and the main
\* statement sent
AskCountResolves ==
    /\ route = "ask" /\ pc = "count"
    /\ Prepares(Awaited)
    /\ totalCount' = Val(ParseInt(NumberToString(
                        Cardinality(Matching(store, Awaited.where, Awaited.params)))))
    /\ sent' = Append(sent, MainQuery(builder, AskOrder, vparams["per_page"],
                                      Some(Offset(vparams["page"], vparams["per_page"]))))
    /\ pc' = "select"
    /\ UNCHANGED <<store, route, request, filters, vparams, uniqueIds, builder, response,
                   compareList>>
    /\ UNCHANGED <<served, renderedList, search, process, ingest>>

\* the main statement resolves: the rows are formatted and the response sent;
\* row.rating.toString() throws on a NULL rating
AskSelectResolves ==
    /\ route = "ask" /\ pc = "select"
    /\ Prepares(Awaited)
    /\ \E seq \in SortedOrderings(Matching(store, Awaited.where, Awaited.params),
                                  Awaited.order) :
          LET rows == Page(seq, Awaited.params[Awaited.paging[1]],
                           Awaited.params[Awaited.paging[2]])
          IN  response' =
                IF \E i \in 1..Len(rows) : rows[i].rating = Null
                THEN AskFailure("Cannot read properties of null (reading 'toString')")
                ELSE Respond(200, ("data" :> [i \in 1..Len(rows) |-> AskCourse(rows[i])])
                                    @@ ("meta" :> Meta(totalCount, vparams["page"],
                                                       vparams["per_page"])))
    /\ pc' = "done"
    /\ UNCHANGED <<store, route, request, filters, vparams, uniqueIds, builder, sent,
                   totalCount, compareList>>
    /\ UNCHANGED <<served, renderedList, search, process, ingest>>

\* ------------------------------------------------------------------------
\* GET /courses
\* ------------------------------------------------------------------------

\* a catch that answers 500 whatever the message
CoursesFailureAlways500(message) ==
    Respond(500, ("error" :> "Internal Server Error")
                   @@ ("message" :> "Failed to fetch courses"))

\* the catch of the route: a message that holds 'Invalid' is answered 400
CoursesFailure(message) ==
    IF Includes(message, "Invalid")
    THEN Respond(400, ("error" :> "Validation Error") @@ ("message" :> message))
    ELSE Respond(500, ("error" :> "Internal Server Error")
                        @@ ("message" :> "Failed to fetch courses"))

\* the handler up to its first await: steps 1 to 6
CoursesReceive(query) ==
    /\ pc = "idle"
    /\ route' = "courses"
    /\ request' = query
    /\ IF validationError(query) # ""
       THEN /\ response' = CoursesFailure(validationError(query))
            /\ pc' = "done"
            /\ UNCHANGED <<vparams, builder, sent>>
       ELSE IF enumError(query) # ""
       THEN /\ response' = Respond(400, "error" :> enumError(query))
            /\ vparams' = validatedParams(query)
            /\ pc' = "done"
            /\ UNCHANGED <<builder, sent>>
       ELSE /\ vparams' = validatedParams(query)
            /\ builder' = CoursesConditions(query, vparams')
            /\ sent' = <<CountQuery(builder')>>
            /\ pc' = "count"
            /\ UNCHANGED response
    /\ UNCHANGED <<store, filters, uniqueIds, totalCount, compareList>>
    /\ UNCHANGED <<served, renderedList, search, process, ingest>>

\* steps 6 to 9: the COUNT statement resolves and the main statement is sent
CoursesCountResolves ==
    /\ route = "courses" /\ pc = "count"
    /\ Prepares(Awaited)
    /\ totalCount' = Val(ParseInt(NumberToString(
                        Cardinality(Matching(store, Awaited.where, Awaited.params)))))
    /\ sent' = Append(sent, MainQuery(builder, CoursesOrder(request), vparams["per_page"],
                                      Some(Offset(vparams["page"], vparams["per_page"]))))
    /\ pc' = "select"
    /\ UNCHANGED <<store, route, request, filters, vparams, uniqueIds, builder, response,
                   compareList>>
    /\ UNCHANGED <<served, renderedList, search, process, ingest>>

\* step 10: the main statement resolves and the response is sent
CoursesSelectResolves ==
    /\ route = "courses" /\ pc = "select"
    /\ Prepares(Awaited)
    /\ \E seq \in SortedOrderings(Matching(store, Awaited.where, Awaited.params),
                                  Awaited.order) :
          response' = Respond(200,
              ("data" :> Page(seq, Awaited.params[Awaited.paging[1]],
                              Awaited.params[Awaited.paging[2]]))
                @@ ("meta" :> Meta(totalCount, vparams["page"], vparams["per_page"])))
    /\ pc' = "done"
    /\ UNCHANGED <<store, route, request, filters, vparams, uniqueIds, builder, sent,
                   totalCount, compareList>>
    /\ UNCHANGED <<served, renderedList, search, process, ingest>>

\* ------------------------------------------------------------------------
\* GET /compare
\* ------------------------------------------------------------------------

\* the handler up to its await: steps 1 to 5
CompareHandler(query) ==
    /\ route' = "compare"
    /\ request' = query
    /\ IF ~Has(query, "ids") \/ query["ids"] = ""
       THEN /\ response' = Respond(400, "error" :> "Missing required parameter")
            /\ pc' = "done"
            /\ UNCHANGED <<uniqueIds, sent>>
       ELSE IF Len(ParseIds(query["ids"])) = 0
       THEN /\ response' = Respond(400, "error" :> "Invalid IDs format")
            /\ pc' = "done"
            /\ UNCHANGED <<uniqueIds, sent>>
       ELSE IF Len(ParseIds(query["ids"])) > MaxCompareIds
       THEN /\ response' = Respond(400, "error" :> "Too many course IDs")
            /\ pc' = "done"
            /\ UNCHANGED <<uniqueIds, sent>>
       ELSE /\ uniqueIds' = Unique(ParseIds(query["ids"]))
            /\ sent' = <<CompareQuery(uniqueIds')>>
            /\ pc' = "compare"
            /\ UNCHANGED response
    /\ UNCHANGED <<store, filters, vparams, builder, totalCount>>
    /\ UNCHANGED <<served, search, process, ingest>>

\* a request arrives while none is in flight
CompareReceive(query) ==
    /\ pc = "idle"
    /\ CompareHandler(query)
    /\ UNCHANGED <<compareList, renderedList>>

\* steps 5 to 9: the statement resolves and the response is sent
CompareResolves ==
    /\ route = "compare" /\ pc = "compare"
    /\ Prepares(Awaited)
    /\ \E foundCourses \in CaseOrderings(Matching(store, Awaited.where, Awaited.params),
                                         Awaited) :
          response' = Respond(200, CompareBody(uniqueIds, foundCourses))
    /\ pc' = "done"
    /\ UNCHANGED <<store, route, request, filters, vparams, uniqueIds, builder, sent,
                   totalCount, compareList>>
    /\ UNCHANGED <<served, renderedList, search, process, ingest>>

CompareFailure ==
    Respond(500, ("error" :> "Internal Server Error")
                   @@ ("message" :> "Failed to compare courses"))

\* ------------------------------------------------------------------------
\* A statement rejects: the store does not run it, or the connection fails
\* ------------------------------------------------------------------------

StoreError(query) ==
    IF Referenced(query) # 1..Len(query.params)
    THEN "bind message supplies the wrong number of parameters"
    ELSE IF ~Prepares(query) /\ query.paging # <<>>
            /\ \A i \in 1..Len(query.order) : query.order[i][1] \in TableColumns
    THEN "OFFSET must not be negative"
    ELSE IF ~Prepares(query) THEN "syntax error at or near ORDER"
    ELSE "Connection terminated unexpectedly"

QueryRejects ==
    /\ pc \in {"count", "select", "compare"}
    /\ response' = CASE route = "ask" -> AskFailure(StoreError(Awaited))
                     [] route = "courses" -> CoursesFailure(StoreError(Awaited))
                     [] route = "compare" -> CompareFailure
    /\ pc' = "done"
    /\ UNCHANGED <<store, route, request, filters, vparams, uniqueIds, builder, sent,
                   totalCount, compareList>>
    /\ UNCHANGED <<served, renderedList, search, process, ingest>>

Next ==
    \/ \E row \in Catalog : Upsert(row)
    \/ \E body \in AskBodies : AskReceive(body)
    \/ AskCountResolves
    \/ AskSelectResolves
    \/ \E query \in CoursesQueries : CoursesReceive(query)
    \/ CoursesCountResolves
    \/ CoursesSelectResolves
    \/ \E query \in CompareRequests : CompareReceive(query)
    \/ CompareResolves
    \/ QueryRejects

Spec == Init /\ [][Next]_vars

\* ------------------------------------------------------------------------
\* The parser on its own: a question is drawn from phrases that state
\* ranges and bounds of every family, and parsed
\* ------------------------------------------------------------------------

MaxPhrases == 2

Phrases ==
    {"between 900 and 300", "from rs 1,200 to 400", "under 450", "above 200", "costs 500",
     "rated between 5 and 3", "rating from 2 to 4.5", "rated above 4", "3 stars",
     "between 10 and 4 credits", "at least 2 credits", "3 credits", "up to 6 credits",
     "Online"}

\* the questions of the documented scenarios
ScenarioTexts ==
    {"online postgraduate management courses rated above 4",
     "Find beginner-friendly Python courses under 50000 INR with high ratings"}

ParseTexts ==
    {Join(phrases, " ") : phrases \in SeqsUpTo(Phrases, MaxPhrases)} \cup ScenarioTexts

InitParse ==
    /\ store = InitialRows
    /\ route = "ask"
    /\ pc = "idle"
    /\ request \in {"question" :> text : text \in ParseTexts}
    /\ filters = EmptyMap
    /\ vparams = EmptyMap
    /\ uniqueIds = <<>>
    /\ builder = [conditions |-> <<>>, queryParams |-> <<>>, paramCounter |-> 1]
    /\ sent = <<>>
    /\ totalCount = 0
    /\ response = NoResponse
    /\ served = <<>>
    /\ compareList = <<>>
    /\ renderedList = <<>>
    /\ search = NewSearchPage
    /\ process = NewProcess
    /\ ingest = NoIngest

\* const filters = parseNaturalLanguageQuery(question)
ParseQuestion ==
    /\ pc = "idle"
    /\ filters' = parseNaturalLanguageQuery(request["question"])
    /\ pc' = "done"
    /\ UNCHANGED <<store, route, request, vparams, uniqueIds, builder, sent, totalCount,
                   response, compareList>>
    /\ UNCHANGED <<served, renderedList, search, process, ingest>>

NextParse == ParseQuestion

SpecParse == InitParse /\ [][NextParse]_vars

\* ------------------------------------------------------------------------
\* The compare list of the frontend and the request the compare page makes
\* from it
\* ------------------------------------------------------------------------

\* compareList.length < 5
CompareListLimit == 5

MaxCompareList == 6

\* course.id, course.course_id: undefined (Null) for a field the object lacks
Property(object, key) == IF key \in DOMAIN object THEN Some(object[key]) ELSE Null

\* addToCompare(courseId): the test reads the compareList of the closure,
\* which is the list as of the last render; the updater appends to the list
\* as it is when it runs
addToCompare(courseId) ==
    /\ pc = "idle"
    /\ Len(compareList) < MaxCompareList
    /\ compareList' =
          IF courseId \notin Range(renderedList) /\ Len(renderedList) < CompareListLimit
          THEN Append(compareList, courseId)
          ELSE compareList
    /\ UNCHANGED <<store, route, pc, request, filters, vparams, uniqueIds, builder, sent,
                   totalCount, response>>
    /\ UNCHANGED <<served, renderedList, search, process, ingest>>

\* prev.filter(id => id !== courseId); courseId is undefined (Null) or an id
Filtered(prev, courseId) == SelectSeq(prev, LAMBDA id : Some(id) # courseId)

\* removeFromCompare(courseId), called while no request is in flight
removeFromCompare(courseId) ==
    /\ pc = "idle"
    /\ compareList' = Filtered(compareList, courseId)
    /\ UNCHANGED <<store, route, pc, request, filters, vparams, uniqueIds, builder, sent,
                   totalCount, response>>
    /\ UNCHANGED <<served, renderedList, search, process, ingest>>

\* clearCompare()
clearCompare ==
    /\ pc = "idle"
    /\ compareList' = <<>>
    /\ UNCHANGED <<store, route, pc, request, filters, vparams, uniqueIds, builder, sent,
                   totalCount, response>>
    /\ UNCHANGED <<served, renderedList, search, process, ingest>>

\* the provider re-renders: its closures capture the list as it is now
render ==
    /\ renderedList # compareList
    /\ renderedList' = compareList
    /\ UNCHANGED <<store, route, pc, request, filters, vparams, uniqueIds, builder, sent,
                   totalCount, response, served, compareList, search, process, ingest>>

\* the effect of ComparePage on [compareList], run after a render:
\* fetchComparisonData(), GET /api/compare?ids=${compareList.join(',')}, when
\* the list is not empty
fetchComparisonData ==
    /\ renderedList = compareList
    /\ Len(compareList) > 0
    /\ CompareReceive("ids" :> Join(compareList, ","))

\* the courses ComparePage displays: setCourses(data.courses || ...)
DisplayedCourses ==
    IF route = "compare" /\ pc = "done" /\ response.status = 200
    THEN response.body["courses"] ELSE <<>>

\* the 'Remove from comparison' control of the i-th displayed course:
\* onClick={() => removeFromCompare(course.id)}.  The updater returns a new
\* array, so the page renders again and its effect on [compareList] runs:
\* fetchComparisonData() when the list is not empty, setCourses([]) otherwise
RemoveClicked(i) ==
    /\ i \in 1..Len(DisplayedCourses)
    /\ compareList' = Filtered(compareList, Property(DisplayedCourses[i], "id"))
    /\ renderedList' = compareList'
    /\ IF Len(compareList') > 0
       THEN CompareHandler("ids" :> Join(compareList', ","))
       ELSE /\ response' = NoResponse
            /\ pc' = "idle"
            /\ UNCHANGED <<store, route, request, filters, vparams, uniqueIds, builder,
                           sent, totalCount, served, search, process, ingest>>

NextUI ==
    \/ \E courseId \in CourseIds : addToCompare(courseId)
    \/ \E courseId \in CourseIds : removeFromCompare(Some(courseId))
    \/ clearCompare
    \/ render
    \/ fetchComparisonData
    \/ CompareResolves
    \/ QueryRejects
    \/ \E i \in 1..MaxCompareIds : RemoveClicked(i)

SpecUI == Init /\ [][NextUI]_vars

\* ------------------------------------------------------------------------
\* Several requests, one after the other: each is served by a new call of
\* its handler, whose conditions, queryParams and paramCounter are local
\* ------------------------------------------------------------------------

MaxRequests == 3

\* GET /courses requests with a search term and a page size
RepeatQueries ==
    {query \in CoursesQueries :
        /\ DOMAIN query \subseteq {"q", "per_page"}
        /\ Has(query, "per_page") => query["per_page"] = "1"}

\* POST /ask bodies: no question, a fee and a level, a term
RepeatBodies ==
    {body \in AskBodies :
        /\ DOMAIN body \subseteq {"question"}
        /\ Has(body, "question") => body["question"] \in {"under 450 UG", "Python"}}

\* what is kept of a request that has been served
Served == [route |-> route, request |-> request, filters |-> filters, vparams |-> vparams,
           sent |-> sent]

\* the response has been sent and the handler has returned: its locals are
\* gone, and the next request starts a handler anew
NextRequest ==
    /\ pc = "done"
    /\ Len(served) + 1 < MaxRequests
    /\ served' = Append(served, Served)
    /\ pc' = "idle"
    /\ route' = "none"
    /\ request' = EmptyMap
    /\ filters' = EmptyMap
    /\ vparams' = EmptyMap
    /\ uniqueIds' = <<>>
    /\ builder' = NewBuilder
    /\ sent' = <<>>
    /\ totalCount' = 0
    /\ response' = NoResponse
    /\ UNCHANGED <<store, compareList, renderedList, search, process, ingest>>

NextRepeat ==
    \/ \E body \in RepeatBodies : AskReceive(body)
    \/ AskCountResolves
    \/ AskSelectResolves
    \/ \E query \in RepeatQueries : CoursesReceive(query)
    \/ CoursesCountResolves
    \/ CoursesSelectResolves
    \/ QueryRejects
    \/ NextRequest

SpecRepeat == Init /\ [][NextRepeat]_vars

\* ------------------------------------------------------------------------
\* The search page of the frontend (pages/SearchPage.jsx) and the answers
\* GET /courses gives to its requests
\* ------------------------------------------------------------------------

\* const ITEMS_PER_PAGE = 10
ITEMS_PER_PAGE == 10

MaxInFlight == 2

MaxPage == 2

\* a table of twelve rows, eleven of them undergraduate: more than one page
SearchRows ==
    InitialRows
      \cup {Row(id, "Design " \o id, "Design", "UG", "online",
                Some(3), 6, Some(40), Some(Dec(300)), 2023) :
              id \in {"F", "G", "H", "I", "J", "K", "L", "M", "N", "O"}}

\* the filter objects the Filters component hands to handleFiltersChange
FilterChoices ==
    {EmptyMap, "level" :> "UG", "level" :> "PG", "search" :> " ",
     "tuition_fee_inr_min" :> "abc"}

\* value && value.toString().trim() !== ''
Applied(filtersObj) == {key \in DOMAIN filtersObj : Trim(filtersObj[key]) # ""}

\* hasFiltersApplied(filtersObj)
hasFiltersApplied(filtersObj) == Applied(filtersObj) # {}

\* the query parameter a filter key is sent as
QueryKey(key) ==
    CASE key = "search" -> "q"
      [] key = "credits_min" -> "min_credits"
      [] key = "credits_max" -> "max_credits"
      [] key = "duration_weeks_min" -> "min_duration_weeks"
      [] key = "duration_weeks_max" -> "max_duration_weeks"
      [] key = "rating_min" -> "min_rating"
      [] key = "rating_max" -> "max_rating"
      [] key = "tuition_fee_inr_min" -> "min_fee"
      [] key = "tuition_fee_inr_max" -> "max_fee"
      [] OTHER -> key

\* buildQueryParams(filtersObj, page): the applied filters under their query
\* keys, then page and per_page
buildQueryParams(filtersObj, page) ==
    [param \in {QueryKey(key) : key \in Applied(filtersObj)} |->
        filtersObj[CHOOSE key \in Applied(filtersObj) : QueryKey(key) = param]]
      @@ ("page" :> NumberToString(page))
      @@ ("per_page" :> NumberToString(ITEMS_PER_PAGE))

\* the rows in the order of an ORDER BY list under which no two rows tie
RECURSIVE Sorted(_, _)
Sorted(rows, order) ==
    IF rows = {} THEN <<>>
    ELSE LET first == CHOOSE row \in rows :
                         \A other \in rows : ~OrderedBefore(other, row, order)
         IN  <<first>> \o Sorted(rows \ {first}, order)

\* GET /courses, steps 6 to 10, on a table that does not change meanwhile:
\* the main statement against the rows
CoursesRun(rows, main, vp) ==
    IF ~Prepares(main) THEN CoursesFailure(StoreError(main))
    ELSE Respond(200,
            ("data" :> Page(Sorted(Matching(rows, main.where, main.params), main.order),
                            main.params[main.paging[1]], main.params[main.paging[2]]))
              @@ ("meta" :> Meta(Cardinality(Matching(rows, main.where, main.params)),
                                 vp["page"], vp["per_page"])))

\* GET /courses from the request to the response
CoursesAnswer(rows, query) ==
    IF validationError(query) # "" THEN CoursesFailure(validationError(query))
    ELSE IF enumError(query) # "" THEN Respond(400, "error" :> enumError(query))
    ELSE CoursesRun(rows,
                    MainQuery(CoursesConditions(query, validatedParams(query)),
                              CoursesOrder(query), validatedParams(query)["per_page"],
                              Some(Offset(validatedParams(query)["page"],
                                          validatedParams(query)["per_page"]))),
                    validatedParams(query))

\* what fetchCourses sets from a response: setCourses, setTotalResults and
\* setTotalPages of the try block when response.ok, those of the catch
\* otherwise
Shown(resp) ==
    IF resp.status = 200
    THEN [courses |-> resp.body["data"],
          totalResults |-> resp.body["meta"].total_count,
          totalPages |-> IF ToNumber(resp.body["meta"].total_pages) # 0
                         THEN ToNumber(resp.body["meta"].total_pages)
                         ELSE ToNumber(MathCeilDiv(resp.body["meta"].total_count,
                                                   ITEMS_PER_PAGE)),
          error |-> FALSE]
    ELSE [courses |-> <<>>, totalResults |-> 0, totalPages |-> 1, error |-> TRUE]

\* the effect on [filters, currentPage], run after the render that follows a
\* change of either: fetchCourses(filters, currentPage) up to its await, and
\* setHasSearched(true), when a filter is applied
SearchEffect(page, filtersObj, currentPage) ==
    IF hasFiltersApplied(filtersObj)
    THEN [page EXCEPT !.loading = TRUE, !.error = FALSE, !.hasSearched = TRUE,
                      !.inFlight = @ \cup {[filters |-> filtersObj, page |-> currentPage]}]
    ELSE page

\* handleFiltersChange(newFilters), the render and the effect that follow
handleFiltersChange(newFilters) ==
    /\ Cardinality(search.inFlight) < MaxInFlight
    /\ search' = SearchEffect(
                    IF hasFiltersApplied(newFilters)
                    THEN [search EXCEPT !.filters = newFilters, !.currentPage = 1]
                    ELSE [search EXCEPT !.filters = newFilters, !.currentPage = 1,
                                        !.courses = <<>>, !.totalResults = 0,
                                        !.totalPages = 1, !.hasSearched = FALSE],
                    newFilters, 1)
    /\ UNCHANGED <<store, route, pc, request, filters, vparams, uniqueIds, builder, sent,
                   totalCount, response, served, compareList, renderedList, process,
                   ingest>>

\* handlePageChange(page) with a page other than the current one, the render
\* and the effect that follow
handlePageChange(page) ==
    /\ Cardinality(search.inFlight) < MaxInFlight
    /\ page >= 1 /\ page <= search.totalPages
    /\ page # search.currentPage
    /\ search' = SearchEffect([search EXCEPT !.currentPage = page], search.filters, page)
    /\ UNCHANGED <<store, route, pc, request, filters, vparams, uniqueIds, builder, sent,
                   totalCount, response, served, compareList, renderedList, process,
                   ingest>>

\* the response to a fetch arrives: fetchCourses from its await to its end
FetchResolves(fetched) ==
    /\ fetched \in search.inFlight
    /\ search' = [search EXCEPT
          !.courses = Shown(CoursesAnswer(store,
                         buildQueryParams(fetched.filters, fetched.page))).courses,
          !.totalResults = Shown(CoursesAnswer(store,
                         buildQueryParams(fetched.filters, fetched.page))).totalResults,
          !.totalPages = Shown(CoursesAnswer(store,
                         buildQueryParams(fetched.filters, fetched.page))).totalPages,
          !.error = Shown(CoursesAnswer(store,
                         buildQueryParams(fetched.filters, fetched.page))).error,
          !.loading = FALSE,
          !.inFlight = @ \ {fetched}]
    /\ UNCHANGED <<store, route, pc, request, filters, vparams, uniqueIds, builder, sent,
                   totalCount, response, served, compareList, renderedList, process,
                   ingest>>

InitSearch ==
    /\ store = SearchRows
    /\ route = "none"
    /\ pc = "idle"
    /\ request = EmptyMap
    /\ filters = EmptyMap
    /\ vparams = EmptyMap
    /\ uniqueIds = <<>>
    /\ builder = [conditions |-> <<>>, queryParams |-> <<>>, paramCounter |-> 1]
    /\ sent = <<>>
    /\ totalCount = 0
    /\ response = NoResponse
    /\ served = <<>>
    /\ compareList = <<>>
    /\ renderedList = <<>>
    /\ search = NewSearchPage
    /\ process = NewProcess
    /\ ingest = NoIngest

NextSearch ==
    \/ \E newFilters \in FilterChoices : handleFiltersChange(newFilters)
    \/ \E page \in 1..MaxPage : handlePageChange(page)
    \/ \E fetched \in [filters : FilterChoices, page : 1..MaxPage] : FetchResolves(fetched)

SpecSearch == InitSearch /\ [][NextSearch]_vars

\* ------------------------------------------------------------------------
\* The shutdown of the server process: the SIGTERM / SIGINT handlers of
\* db.js (registered when server.js requires the module) and of server.js
\* (registered by startServer), which both run on every signal, in this order
\* ------------------------------------------------------------------------

MaxSignals == 2

\* the requests in flight when the signal arrives
ShutdownRequests ==
    {EmptyMap} \cup {"ids" :> Join(tokens, ",") : tokens \in SeqsUpTo(CourseIds, 2)}

\* db.js, gracefulShutdown up to its await: pool.end() is called.  A pool
\* that is ending rejects ('Called end on pool more than once'), and the
\* catch exits with 1 before any other callback runs
DbShutdown(proc) ==
    IF proc.pool = "open"
    THEN [proc EXCEPT !.ends = @ + 1, !.pool = "ending", !.pending = @ \cup {"poolEnd"}]
    ELSE [proc EXCEPT !.ends = @ + 1, !.exit = Some(1)]

\* server.js, gracefulShutdown(signal): server.close(callback) stops the
\* listening, and the 10 s timer is set
ServerShutdown(proc) ==
    [proc EXCEPT !.server = IF @ = "listening" THEN "closing" ELSE @,
                 !.pending = @ \cup {"serverClose", "timeout"}]

\* SIGTERM or SIGINT is delivered
Signal ==
    /\ process.exit = Null
    /\ process.signals < MaxSignals
    /\ process' = [ServerShutdown(DbShutdown(process)) EXCEPT !.signals = @ + 1]
    /\ UNCHANGED <<store, route, pc, request, filters, vparams, uniqueIds, builder, sent,
                   totalCount, response, served, compareList, renderedList, search,
                   ingest>>

\* the pool has ended, once no statement is in flight: the await of db.js
\* (or the callback given by server.js) continues with process.exit(0)
PoolEnds ==
    /\ process.exit = Null
    /\ "poolEnd" \in process.pending
    /\ pc \notin {"count", "select", "compare"}
    /\ process' = [process EXCEPT !.pool = "ended", !.exit = Some(0)]
    /\ UNCHANGED <<store, route, pc, request, filters, vparams, uniqueIds, builder, sent,
                   totalCount, response, served, compareList, renderedList, search,
                   ingest>>

\* the HTTP server has closed, once no request is in flight: the callback of
\* server.close calls db.pool.end(callback); a pool that is ending calls the
\* callback at once with an error, which the callback ignores: process.exit(0)
ServerCloses ==
    /\ process.exit = Null
    /\ "serverClose" \in process.pending
    /\ pc \in {"idle", "done"}
    /\ process' =
          IF process.pool = "open"
          THEN [process EXCEPT !.server = "closed", !.ends = @ + 1, !.pool = "ending",
                               !.pending = (@ \ {"serverClose"}) \cup {"poolEnd"}]
          ELSE [process EXCEPT !.server = "closed", !.ends = @ + 1, !.exit = Some(0)]
    /\ UNCHANGED <<store, route, pc, request, filters, vparams, uniqueIds, builder, sent,
                   totalCount, response, served, compareList, renderedList, search,
                   ingest>>

\* the 10 s timer fires: process.exit(1)
Timeout ==
    /\ process.exit = Null
    /\ "timeout" \in process.pending
    /\ process' = [process EXCEPT !.exit = Some(1)]
    /\ UNCHANGED <<store, route, pc, request, filters, vparams, uniqueIds, builder, sent,
                   totalCount, response, served, compareList, renderedList, search,
                   ingest>>

\* requests are accepted while the server listens, and served while the
\* process runs
NextShutdown ==
    \/ Signal
    \/ PoolEnds
    \/ ServerCloses
    \/ Timeout
    \/ \E query \in ShutdownRequests :
          process.server = "listening" /\ process.exit = Null /\ CompareReceive(query)
    \/ process.exit = Null /\ CompareResolves
    \/ process.exit = Null /\ QueryRejects

SpecShutdown == Init /\ [][NextShutdown]_vars

\* ------------------------------------------------------------------------
\* POST /ingest (routes/ingest.js): the records of the CSV file are upserted
\* one after the other and counted
\* ------------------------------------------------------------------------

MaxRecords == 3

\* process.env.INGEST_TOKEN
IngestToken == "secret"

\* a record of the CSV file as csv-parse returns it: every column a string
CsvRecord(id, name, level, mode, credits, rating) ==
    [course_id |-> id, course_name |-> name, department |-> "Computer Science",
     level |-> level, delivery_mode |-> mode, credits |-> credits,
     duration_weeks |-> "8", rating |-> rating, tuition_fee_inr |-> "400",
     year_offered |-> "2024"]

\* a course of the table, a course that is not in it, a record without an
\* id, a record whose level is blank
CsvRecords ==
    {CsvRecord("A", "Python Basics", "UG", "online", "4", "4.6"),
     CsvRecord(" C ", "Data Mining", "PG", "online", "", ""),
     CsvRecord("", "Nameless", "UG", "online", "3", "4"),
     CsvRecord("E", "Ethics", " ", "", "3", "4")}

\* the x-ingest-token header and the uploaded file: none, one that csv-parse
\* rejects, or one that parses into records
IngestRequests ==
    [token : {Null, Some("wrong"), Some(IngestToken)},
     file : {Null} \cup {Some([parses |-> FALSE, records |-> <<>>])}
              \cup {Some([parses |-> TRUE, records |-> records]) :
                      records \in SeqsUpTo(CsvRecords, MaxRecords)}]

\* const requiredFields = [...]
requiredFields == <<"course_id", "course_name", "level", "delivery_mode">>

\* requiredFields.filter(field => !row[field] || row[field].trim() === '')
missingFields(row) == SelectSeq(requiredFields, LAMBDA field : Trim(row[field]) = "")

\* step 7: courseData, as a row of the table (an empty cell is NULL; the
\* records tried give a department, a duration and a year)
courseData(row) ==
    Row(Trim(row.course_id), Trim(row.course_name), Trim(row.department), Trim(row.level),
        Trim(row.delivery_mode),
        IF row.credits = "" THEN Null ELSE ParseInt(row.credits),
        Val(ParseInt(row.duration_weeks)),
        IF row.rating = "" THEN Null ELSE ParseFloat(row.rating),
        IF row.tuition_fee_inr = "" THEN Null ELSE Some(Dec(Val(ParseInt(row.tuition_fee_inr)))),
        Val(ParseInt(row.year_offered)))

\* a failure that is pushed to failedRows but not counted
RowFailedUncounted(ing, error) ==
    [ing EXCEPT !.failedRows = Append(@, [row |-> ing.i + 2, error |-> error,
                                          data |-> ing.records[ing.i + 1]]),
                !.i = @ + 1,
                !.pc = "loop"]

\* failed++; failedRows.push({row: rowNumber, error, data: row}); the loop
\* goes on with the next record
RowFailed(ing, error) ==
    [ing EXCEPT !.failed = @ + 1,
                !.failedRows = Append(@, [row |-> ing.i + 2, error |-> error,
                                          data |-> ing.records[ing.i + 1]]),
                !.i = @ + 1,
                !.pc = "loop"]

\* steps 1 to 4: the token, the file, the counters, the parse
IngestReceive(req) ==
    /\ ingest.pc = "idle"
    /\ ingest' =
          IF req.token = Null \/ Val(req.token) # IngestToken
          THEN [ingest EXCEPT !.pc = "done", !.response =
                   Respond(401, "error" :> "Unauthorized: Invalid or missing ingest token")]
          ELSE IF req.file = Null
          THEN [ingest EXCEPT !.pc = "done", !.response =
                   Respond(400, "error" :> "No CSV file uploaded")]
          ELSE IF ~Val(req.file).parses
          THEN [ingest EXCEPT !.pc = "done", !.response =
                   Respond(500, "error" :> "Internal server error during CSV processing")]
          ELSE [pc |-> "loop", records |-> Val(req.file).records, i |-> 0, inserted |-> 0,
                updated |-> 0, failed |-> 0, failedRows |-> <<>>, response |-> NoResponse]
    /\ UNCHANGED <<store, route, pc, request, filters, vparams, uniqueIds, builder, sent,
                   totalCount, response, served, compareList, renderedList, search,
                   process>>

\* steps 5 to 8 for records[i]: a record that lacks a required field is
\* counted as failed and skipped; for any other the upsert is sent
IngestRow ==
    /\ ingest.pc = "loop"
    /\ ingest.i < Len(ingest.records)
    /\ ingest' =
          IF Len(missingFields(ingest.records[ingest.i + 1])) > 0
          THEN RowFailed(ingest, "Missing required fields: "
                                   \o Join(missingFields(ingest.records[ingest.i + 1]), ", "))
          ELSE [ingest EXCEPT !.pc = "upsert"]
    /\ UNCHANGED <<store, route, pc, request, filters, vparams, uniqueIds, builder, sent,
                   totalCount, response, served, compareList, renderedList, search,
                   process>>

\* the upsert resolves: 'inserted' when no row had the course_id (xmax = 0),
\* 'updated' otherwise
IngestUpsertResolves ==
    /\ ingest.pc = "upsert"
    /\ store' = Upserted(store, courseData(ingest.records[ingest.i + 1]))
    /\ ingest' =
          IF \E r \in store : r.course_id = courseData(ingest.records[ingest.i + 1]).course_id
          THEN [ingest EXCEPT !.updated = @ + 1, !.i = @ + 1, !.pc = "loop"]
          ELSE [ingest EXCEPT !.inserted = @ + 1, !.i = @ + 1, !.pc = "loop"]
    /\ UNCHANGED <<route, pc, request, filters, vparams, uniqueIds, builder, sent,
                   totalCount, response, served, compareList, renderedList, search,
                   process>>

\* the upsert rejects: the catch of the row counts it as failed
IngestUpsertRejects ==
    /\ ingest.pc = "upsert"
    /\ ingest' = RowFailed(ingest, "Connection terminated unexpectedly")
    /\ UNCHANGED <<store, route, pc, request, filters, vparams, uniqueIds, builder, sent,
                   totalCount, response, served, compareList, renderedList, search,
                   process>>

\* step 11: the summary; failed_rows holds the first 10 failures
IngestSummary(ing) ==
    ("inserted" :> ing.inserted) @@ ("updated" :> ing.updated) @@ ("failed" :> ing.failed)
      @@ ("total_processed" :> Len(ing.records))
      @@ (IF ing.failed > 0 /\ Len(ing.failedRows) > 0
          THEN "failed_rows" :> SubSeq(ing.failedRows, 1, Min2(10, Len(ing.failedRows)))
          ELSE EmptyMap)

\* the loop has ended: res.status(200).json(response)
IngestRespond ==
    /\ ingest.pc = "loop"
    /\ ingest.i = Len(ingest.records)
    /\ ingest' = [ingest EXCEPT !.pc = "done", !.response = Respond(200, IngestSummary(ingest))]
    /\ UNCHANGED <<store, route, pc, request, filters, vparams, uniqueIds, builder, sent,
                   totalCount, response, served, compareList, renderedList, search,
                   process>>

NextIngest ==
    \/ \E req \in IngestRequests : IngestReceive(req)
    \/ IngestRow
    \/ IngestUpsertResolves
    \/ IngestUpsertRejects
    \/ IngestRespond

SpecIngest == Init /\ [][NextIngest]_vars

\* ------------------------------------------------------------------------
\* Properties of the search handlers
\* ------------------------------------------------------------------------

\* C1: on POST /ask and GET /courses the i-th fragment appended refers to
\* placeholder $i and to nothing else (the q fragment uses its one number for
\* both columns), parameter i is the value of the i-th fragment, the COUNT
\* statement is sent with exactly these n parameters, and the SELECT
\* statement with n + 2, the last two being per_page and the offset, bound to
\* $n+1 and $n+2.
C1_PlaceholdersInOrder ==
    route \in {"ask", "courses"} =>
        \A s \in 1..Len(sent) :
            LET query == sent[s]
                n == Len(query.where)
                short == [tuition_fee_inr |-> "fee", rating |-> "rating",
                          credits |-> "credits", duration_weeks |-> "duration_weeks"]
                Key(f) == (IF f.op = ">=" THEN "min_" ELSE "max_") \o short[f.columns[1]]
            IN  /\ query.kind = (IF s = 1 THEN "count" ELSE "select")
                /\ \A i \in 1..n : Range(query.where[i].placeholders) = {i}
                /\ \A i \in 1..n :
                      query.where[i].op \in {">=", "<="} =>
                          query.params[i] = (IF route = "ask"
                                             THEN Some(filters[Key(query.where[i])])
                                             ELSE vparams[Key(query.where[i])])
                /\ query.kind = "count" => Len(query.params) = n /\ query.paging = <<>>
                /\ query.kind = "select" =>
                      /\ Len(query.params) = n + 2
                      /\ SubSeq(query.params, 1, n) = sent[1].params
                      /\ query.paging = <<n + 1, n + 2>>
                      /\ query.params[n + 1] = vparams["per_page"]
                      /\ query.params[n + 2] =
                            Some(Offset(vparams["page"], vparams["per_page"]))

\* a SELECT statement of POST /ask has been sent whose first fragment is the
\* q fragment and which has at least two more fragments
C1_Witness ==
    /\ route = "ask"
    /\ Len(sent) = 2
    /\ Len(sent[2].where) >= 3
    /\ Len(sent[2].where[1].columns) = 2
    /\ Len(sent[2].params) = Len(sent[2].where) + 2

\* C2: the filter map the parser returns has min_fee <= max_fee, min_rating
\* <= max_rating and min_credits <= max_credits whenever both keys of a pair
\* are set, also for a 'between X and Y' with X > Y.
C2_ParsedRangesOrdered ==
    (route = "ask" /\ pc # "idle") =>
        \A family \in {"fee", "rating", "credits"} :
            (Has(filters, "min_" \o family) /\ Has(filters, "max_" \o family)) =>
                filters["min_" \o family] <= filters["max_" \o family]

\* a question that states reversed fee and rating ranges has been parsed
\* into ordered ones
C2_Witness ==
    /\ pc = "done"
    /\ request["question"] = "between 900 and 300 rated between 5 and 3"
    /\ filters["min_fee"] = Dec(300) /\ filters["max_fee"] = Dec(900)
    /\ filters["min_rating"] = Dec(3) /\ filters["max_rating"] = Dec(5)

\* C3: on GET /courses a request whose min/max pair is reversed fails
\* validation: it is answered 4xx and no statement is sent for it.
C3_ReversedRangeRejected ==
    (route = "courses"
       /\ \E family \in {"fee", "rating", "credits", "duration_weeks"} :
             /\ Has(request, "min_" \o family) /\ Has(request, "max_" \o family)
             /\ ParseFloat(request["min_" \o family]) # Null
             /\ ParseFloat(request["max_" \o family]) # Null
             /\ Val(ParseFloat(request["min_" \o family]))
                  > Val(ParseFloat(request["max_" \o family])))
      => /\ sent = <<>>
         /\ response.status \in 400..499

\* C4: on POST /ask and GET /courses every filter set a statement is sent
\* for passes the validator's domain checks: ratings in [0, 5], credits and
\* duration bounds >= 1, year_offered in [1900, 2100], fees >= 0.
C4_QueriedFiltersInDomain ==
    (route \in {"ask", "courses"} /\ sent # <<>>) =>
        LET Given(key) == IF route = "ask" THEN Has(filters, key) ELSE IsSet(vparams[key])
            Value(key) == IF route = "ask" THEN filters[key] ELSE Val(vparams[key])
        IN  /\ \A key \in {"min_rating", "max_rating"} :
                  Given(key) => Value(key) >= Dec(0) /\ Value(key) <= Dec(5)
            /\ \A key \in {"min_credits", "max_credits"} :
                  Given(key) => Value(key) >= 1
            /\ \A key \in {"min_duration_weeks", "max_duration_weeks"} :
                  (route = "courses" /\ Given(key)) => Value(key) >= 1
            /\ Given("year_offered") =>
                  Value("year_offered") >= 1900 /\ Value("year_offered") <= 2100
            /\ \A key \in {"min_fee", "max_fee"} : Given(key) => Value(key) >= Dec(0)

\* C5: a successful search response with total_count >= 0, per_page >= 1 and
\* page >= 1 has total_pages = ceil(total_count / per_page) (the least number
\* of pages of per_page rows that hold total_count rows), has_next_page
\* exactly when page < total_pages and has_prev_page exactly when page > 1.
C5_MetaConsistent ==
    (route \in {"ask", "courses"} /\ response.status = 200) =>
        LET meta == response.body["meta"]
        IN  (/\ meta.total_count >= 0
             /\ IsSet(meta.per_page) /\ Val(meta.per_page) >= 1
             /\ IsSet(meta.page) /\ Val(meta.page) >= 1) =>
                /\ IsSet(meta.total_pages)
                /\ Val(meta.total_pages) * Val(meta.per_page) >= meta.total_count
                /\ (Val(meta.total_pages) - 1) * Val(meta.per_page) < meta.total_count
                /\ meta.has_next_page <=> Val(meta.page) < Val(meta.total_pages)
                /\ meta.has_prev_page <=> Val(meta.page) > 1

\* the last of two pages has been served: three rows, two to a page
C5_Witness ==
    /\ route \in {"ask", "courses"}
    /\ response.status = 200
    /\ response.body["meta"].total_count = 3
    /\ response.body["meta"].per_page = Some(2)
    /\ response.body["meta"].page = Some(2)
    /\ response.body["meta"].total_pages = Some(2)
    /\ ~response.body["meta"].has_next_page
    /\ response.body["meta"].has_prev_page

\* C6: a search response holds at most min(per_page, total_count) rows,
\* total_count being the one its own meta reports, however the COUNT and the
\* SELECT statement interleave with upserts of matching rows.
C6_RowsWithinCount ==
    (/\ route \in {"ask", "courses"}
     /\ response.status = 200
     /\ IsSet(response.body["meta"].per_page)
     /\ Val(response.body["meta"].per_page) >= 1) =>
        Len(response.body["data"])
            <= Min2(Val(response.body["meta"].per_page), response.body["meta"].total_count)

\* C7: on the three paths a request that fails validation (no question or
\* ids, a number that does not parse or is out of range, an unknown level,
\* delivery_mode or sort value, an empty or over-long id list) is answered
\* 4xx, and no statement has been sent for a request answered 4xx.
C7_ValidationBeforeQuery ==
    pc = "done" =>
        /\ response.status \in 400..499 => sent = <<>>
        /\ (\/ route = "ask" /\ (~Has(request, "question") \/ request["question"] = "")
            \/ route = "courses"
                 /\ (validationError(request) # "" \/ enumError(request) # "")
            \/ route = "compare"
                 /\ (\/ ~Has(request, "ids")
                     \/ Len(ParseIds(request["ids"])) \notin 1..MaxCompareIds))
              => response.status \in 400..499 /\ sent = <<>>

\* GET /courses?min_rating=9 has been answered 400 without a statement
C7_Witness ==
    /\ route = "courses" /\ pc = "done"
    /\ request = ("min_rating" :> "9")
    /\ response.status = 400
    /\ response.body["message"] = "Invalid min_rating: must be <= 5"
    /\ sent = <<>>

\* ------------------------------------------------------------------------
\* Properties of the comparison
\* ------------------------------------------------------------------------

\* C8: an accepted comparison keeps the first occurrence of each id, binds
\* the i-th unique id to $i in the IN list and in the CASE expression, and
\* answers with the courses in that first-occurrence order, whatever order
\* the store returns rows in.
C8_FirstOccurrenceOrder ==
    (route = "compare" /\ sent # <<>>) =>
        LET ids == ParseIds(request["ids"])
            n == Len(uniqueIds)
            First(id) == SetMin({k \in 1..Len(ids) : ids[k] = id})
            Position(id) == SetMin({k \in 1..n : uniqueIds[k] = id})
        IN  /\ Range(uniqueIds) = Range(ids)
            /\ \A i, j \in 1..n : i < j => First(uniqueIds[i]) < First(uniqueIds[j])
            /\ Len(sent[1].where) = 1
            /\ sent[1].where[1].placeholders = [k \in 1..n |-> k]
            /\ sent[1].params = [k \in 1..n |-> Some(uniqueIds[k])]
            /\ sent[1].caseOrder = [k \in 1..n |-> <<k, k>>]
            /\ response.status = 200 =>
                  LET courses == response.body["courses"]
                  IN  \A i, j \in 1..Len(courses) :
                          i < j => Position(courses[i].course_id)
                                     < Position(courses[j].course_id)

\* 'C,A,C,B' has been answered with the courses C, A, B in this order
C8_Witness ==
    /\ route = "compare" /\ response.status = 200
    /\ request["ids"] = "C,A,C,B"
    /\ uniqueIds = <<"C", "A", "B">>
    /\ [i \in 1..Len(response.body["courses"]) |-> response.body["courses"][i].course_id]
         = <<"C", "A", "B">>

\* C9: the cap is on the distinct ids: a comparison is rejected as too many
\* ids exactly when it names more than 4 distinct non-empty ids.
C9_CapOnDistinctIds ==
    (route = "compare" /\ pc = "done" /\ Has(request, "ids")
       /\ Len(ParseIds(request["ids"])) > 0) =>
        ((response.status = 400 /\ response.body["error"] = "Too many course IDs")
           <=> Cardinality(Range(ParseIds(request["ids"]))) > MaxCompareIds)

\* C10: the request the compare page makes from a compare list built with
\* addToCompare (1 to 5 distinct ids) is accepted: it is not answered 4xx.
C10_CompareListAccepted ==
    (route = "compare" /\ pc = "done" /\ Len(compareList) \in 1..CompareListLimit
       /\ request["ids"] = Join(compareList, ",")) =>
        response.status \notin 400..499

\* ------------------------------------------------------------------------
\* Properties of the pagination inputs and of the two compilers
\* ------------------------------------------------------------------------

\* C11: on POST /ask and GET /courses an absent page is 1 and a page below 1
\* is raised to 1, an absent per_page is 10 and a per_page outside [1, 100]
\* is brought to the nearest bound; the request is not rejected, so both
\* paths hold the same (page, per_page) for the same input.
C11_PaginationNormalised ==
    (/\ pc # "idle"
     /\ \/ route = "ask" /\ Has(request, "question") /\ request["question"] # ""
        \/ route = "courses" /\ DOMAIN request \subseteq {"page", "per_page"}
     /\ \A key \in {"page", "per_page"} :
           Has(request, key) => ParseInt(request[key]) # Null) =>
        LET page == IF Has(request, "page") THEN Val(ParseInt(request["page"])) ELSE 1
            perPage == IF Has(request, "per_page") THEN Val(ParseInt(request["per_page"]))
                       ELSE 10
        IN  /\ response.status \notin 400..499
            /\ vparams["page"] = Some(Max2(1, page))
            /\ vparams["per_page"] = Some(Min2(100, Max2(1, perPage)))

\* C12: for the same filter set both paths compile the same fragments in the
\* same order with the same parameter values: the WHERE clause and the
\* parameters GET /courses builds are those executeFilteredQuery builds from
\* the filter set the request states.
C12_SameCompiler ==
    (/\ route = "courses" /\ sent # <<>>
     /\ ~Has(request, "min_duration_weeks") /\ ~Has(request, "max_duration_weeks")) =>
        LET Text(key, value) ==
                IF Has(request, key) THEN key :> value ELSE EmptyMap
            Number(key) ==
                IF IsSet(vparams[key]) THEN key :> Val(vparams[key]) ELSE EmptyMap
            stated ==
                Text("q", Trim(ParamOr(request, "q", "")))
                  @@ Text("department", Trim(ParamOr(request, "department", "")))
                  @@ Text("level", ToUpperCase(ParamOr(request, "level", "")))
                  @@ Text("delivery_mode", ToLowerCase(ParamOr(request, "delivery_mode", "")))
                  @@ Number("year_offered")
                  @@ Number("min_fee") @@ Number("max_fee")
                  @@ Number("min_rating") @@ Number("max_rating")
                  @@ Number("min_credits") @@ Number("max_credits")
        IN  /\ AskConditions(stated).conditions = builder.conditions
            /\ AskConditions(stated).queryParams = builder.queryParams

\* ------------------------------------------------------------------------
\* Properties of the parser
\* ------------------------------------------------------------------------

\* C13: 'online postgraduate management courses rated above 4' is parsed
\* into exactly delivery_mode online, level PG, department Management and
\* min_rating 4.
C13_ManagementScenario ==
    (pc = "done"
       /\ request["question"] = "online postgraduate management courses rated above 4") =>
        filters = ("delivery_mode" :> "online") @@ ("level" :> "PG")
                    @@ ("department" :> "Management") @@ ("min_rating" :> Dec(4))

\* C14: 'Find beginner-friendly Python courses under 50000 INR with high
\* ratings' is parsed into exactly max_fee 50000 and q 'python beginner
\* friendly high ratings'.
C14_PythonScenario ==
    (pc = "done"
       /\ request["question"]
            = "Find beginner-friendly Python courses under 50000 INR with high ratings") =>
        filters = ("max_fee" :> Dec(50000))
                    @@ ("q" :> "python beginner friendly high ratings")

\* C15: the credits keys follow the shape of the text: 'N credits' sets
\* min_credits = max_credits = N, 'between N and M credits' the ordered
\* range, 'at least N credits' min_credits only, 'up to N credits'
\* max_credits only.
C15_CreditShapes ==
    pc = "done" =>
        LET credits == [key \in {"min_credits", "max_credits"} \cap DOMAIN filters |->
                           filters[key]]
            question == request["question"]
        IN  /\ question = "3 credits" =>
                  credits = ("min_credits" :> 3) @@ ("max_credits" :> 3)
            /\ question = "between 10 and 4 credits" =>
                  credits = ("min_credits" :> 4) @@ ("max_credits" :> 10)
            /\ question = "at least 2 credits" => credits = ("min_credits" :> 2)
            /\ question = "up to 6 credits" => credits = ("max_credits" :> 6)

\* C16: the fee shapes are tried in the order under, above, between, exact,
\* and the fee keys of the result are exactly those of the earliest shape
\* that matches the text; no later shape sets a key.
C16_FirstFeeShapeOnly ==
    pc = "done" =>
        LET lowerQuestion == Trim(ToLowerCase(request["question"]))
            under == FirstMatch(lowerQuestion, FeeUnderRegex)
            above == FirstMatch(lowerQuestion, FeeAboveRegex)
            between == FirstMatch(lowerQuestion, FeeBetweenRegex)
            exact == FirstMatch(lowerQuestion, FeeExactRegex)
            fees == [key \in {"min_fee", "max_fee"} \cap DOMAIN filters |-> filters[key]]
        IN  CASE under # NoMatch -> fees = ("max_fee" :> FeeValue(under[1]))
              [] under = NoMatch /\ above # NoMatch ->
                    fees = ("min_fee" :> FeeValue(above[1]))
              [] under = NoMatch /\ above = NoMatch /\ between # NoMatch ->
                    /\ DOMAIN fees = {"min_fee", "max_fee"}
                    /\ {fees["min_fee"], fees["max_fee"]}
                         = {FeeValue(between[1]), FeeValue(between[2])}
                    /\ fees["min_fee"] <= fees["max_fee"]
              [] under = NoMatch /\ above = NoMatch /\ between = NoMatch
                   /\ exact # NoMatch ->
                    fees = ("min_fee" :> FeeValue(exact[1]))
                             @@ ("max_fee" :> FeeValue(exact[1]))
              [] OTHER -> DOMAIN fees = {}

\* a text of the above shape followed by the under shape has been parsed:
\* max_fee alone is set
C16_Witness ==
    /\ pc = "done"
    /\ request["question"] = "above 200 under 450"
    /\ Has(filters, "max_fee") /\ filters["max_fee"] = Dec(450)
    /\ ~Has(filters, "min_fee")

\* C17: q is the words of the lowercased text, in their order and joined by
\* one space, that are not stop-words, not digit sequences, have at least 3
\* characters and are no delivery, level, department or generic vocabulary
\* word; q is absent exactly when no word is left.
C17_ResidueWords ==
    pc = "done" =>
        LET words == SplitWs(Trim(ToLowerCase(request["question"])))
            vocabulary ==
                UNION {deliveryModePatterns[i][2] : i \in 1..Len(deliveryModePatterns)}
                  \cup UNION {levelPatterns[i][2] : i \in 1..Len(levelPatterns)}
                  \cup UNION {departmentKeywords[i][2] : i \in 1..Len(departmentKeywords)}
                  \cup {"rating", "rated", "star", "stars", "credit", "credits",
                        "fee", "fees", "cost", "costs", "price", "year"}
            Kept(word) ==
                /\ word \notin stopWords
                /\ \E i \in 1..Len(word) : ~IsDigitAt(word, i)
                /\ Len(word) >= 3
                /\ word \notin vocabulary
            left == SelectSeq(words, Kept)
        IN  /\ Has(filters, "q") <=> left # <<>>
            /\ Has(filters, "q") =>
                  /\ SplitWs(filters["q"]) = left
                  /\ Len(filters["q"]) = SumSeq([i \in 1..Len(left) |-> Len(left[i])])
                                           + Len(left) - 1

\* 'from rs 1,200 to 400' has been parsed: the residue is 'from 1,200'
C17_Witness ==
    /\ pc = "done"
    /\ request["question"] = "from rs 1,200 to 400"
    /\ Has(filters, "q") /\ filters["q"] = "from 1,200"

\* C18: the parser returns a filter map for every text, and the keys of a
\* category none of whose patterns matches the text are absent from it.
C18_UnmatchedKeysAbsent ==
    pc = "done" =>
        LET lowerQuestion == Trim(ToLowerCase(request["question"]))
            Named(table) ==
                \E i \in 1..Len(table) :
                    \E pattern \in table[i][2] : Includes(lowerQuestion, pattern)
        IN  /\ DOMAIN filters \subseteq
                  {"delivery_mode", "level", "min_fee", "max_fee", "min_rating",
                   "max_rating", "min_credits", "max_credits", "department",
                   "year_offered", "q"}
            /\ ~Named(deliveryModePatterns) => ~Has(filters, "delivery_mode")
            /\ ~Named(levelPatterns) => ~Has(filters, "level")
            /\ ~Named(departmentKeywords) => ~Has(filters, "department")
            /\ (/\ FirstMatch(lowerQuestion, FeeUnderRegex) = NoMatch
                /\ FirstMatch(lowerQuestion, FeeAboveRegex) = NoMatch
                /\ FirstMatch(lowerQuestion, FeeBetweenRegex) = NoMatch
                /\ FirstMatch(lowerQuestion, FeeExactRegex) = NoMatch)
                  => ~Has(filters, "min_fee") /\ ~Has(filters, "max_fee")
            /\ (/\ FirstMatch(lowerQuestion, RatingAboveRegex) = NoMatch
                /\ FirstMatch(lowerQuestion, RatingBelowRegex) = NoMatch
                /\ FirstMatch(lowerQuestion, RatingBetweenRegex) = NoMatch
                /\ FirstMatch(lowerQuestion, RatingBareRegex) = NoMatch)
                  => ~Has(filters, "min_rating") /\ ~Has(filters, "max_rating")
            /\ (/\ FirstMatch(lowerQuestion, CreditsBareRegex) = NoMatch
                /\ FirstMatch(lowerQuestion, CreditsBetweenRegex) = NoMatch
                /\ FirstMatch(lowerQuestion, CreditsAtLeastRegex) = NoMatch
                /\ FirstMatch(lowerQuestion, CreditsAtMostRegex) = NoMatch)
                  => ~Has(filters, "min_credits") /\ ~Has(filters, "max_credits")
            /\ FirstMatch(lowerQuestion, YearRegex) = NoMatch
                  => ~Has(filters, "year_offered")

\* 'Online' has been parsed: delivery_mode is the only key
C18_Witness ==
    /\ pc = "done"
    /\ request["question"] = "Online"
    /\ filters = ("delivery_mode" :> "online")

\* ------------------------------------------------------------------------
\* Properties of the failure and of the sort clause
\* ------------------------------------------------------------------------

\* C19: when a statement fails the response is a 5xx whose body does not
\* carry the store's error message.
C19_StoreErrorOpaque ==
    (pc = "done" /\ sent # <<>> /\ response.status # 200) =>
        /\ response.status \in 500..599
        /\ \A key \in DOMAIN response.body :
              ~Includes(response.body[key], StoreError(Awaited))

\* C20: on GET /courses a statement is sent only for a sort_by that is a
\* whitelisted column and a sort_dir that is asc or desc (the empty string
\* included among the rejected), and the ORDER BY of every main statement
\* names a whitelisted column and the direction ASC or DESC.
C20_SortWhitelisted ==
    (route = "courses" /\ sent # <<>>) =>
        /\ ParamOr(request, "sort_by", "course_id") \in validSortColumns
        /\ ToLowerCase(ParamOr(request, "sort_dir", "asc")) \in validSortDirections
        /\ \A s \in 1..Len(sent) :
              sent[s].kind = "select" =>
                  /\ sent[s].order[1][1] \in validSortColumns
                  /\ sent[s].order[1][2] \in {"ASC", "DESC"}

\* ------------------------------------------------------------------------
\* Properties of the pages served
\* ------------------------------------------------------------------------

\* C21: on POST /ask and GET /courses the OFFSET of the SELECT statement is
\* (page - 1) * per_page and page is not clamped against total_pages: a 200
\* response reports the requested page; for a page beyond total_pages it has
\* has_next_page false and has_prev_page true; when total_count is 0 it has
\* total_pages 0, has_next_page false and has_prev_page exactly when page > 1.
C21_PageNotClamped ==
    (route \in {"ask", "courses"} /\ sent # <<>>) =>
        LET Requested(key, fallback) ==
                IF route = "ask"
                THEN Some(IF key = "page" THEN AskPageNum(request) ELSE AskPerPage(request))
                ELSE IF Has(request, key) THEN ParseInt(request[key]) ELSE Some(fallback)
            page == Requested("page", 1)
            perPage == Requested("per_page", 10)
        IN  /\ \A s \in 1..Len(sent) :
                  sent[s].kind = "select" =>
                      sent[s].params[sent[s].paging[2]]
                          = Some((ToNumber(page) - 1) * ToNumber(perPage))
            /\ response.status = 200 =>
                  LET meta == response.body["meta"]
                  IN  /\ meta.page = page
                      /\ (/\ meta.total_count > 0
                          /\ IsSet(meta.total_pages)
                          /\ ToNumber(page) > Val(meta.total_pages)) =>
                              ~meta.has_next_page /\ meta.has_prev_page
                      /\ meta.total_count = 0 =>
                            /\ meta.total_pages = Some(0)
                            /\ ~meta.has_next_page
                            /\ meta.has_prev_page <=> ToNumber(page) > 1

\* C24: every 2xx response of GET /courses has meta.page an integer >= 1 and
\* meta.per_page an integer in [1, 100], and its SELECT statement was sent
\* with LIMIT equal to that per_page and an OFFSET that is an integer >= 0,
\* whatever the form of page and per_page, the empty string included.
C24_PaginationInRange ==
    (route = "courses" /\ response.status \in 200..299) =>
        LET meta == response.body["meta"]
            select == sent[Len(sent)]
        IN  /\ IsSet(meta.page) /\ Val(meta.page) >= 1
            /\ IsSet(meta.per_page) /\ Val(meta.per_page) \in 1..100
            /\ select.kind = "select"
            /\ select.params[select.paging[1]] = meta.per_page
            /\ IsSet(select.params[select.paging[2]])
            /\ Val(select.params[select.paging[2]]) >= 0

\* ------------------------------------------------------------------------
\* Properties of the comparison response
\* ------------------------------------------------------------------------

\* C22: a comparison response carries insights exactly when more than one
\* course was found, and then each of fee_range, rating_range and
\* credits_range is computed from the non-null values of the rows found and
\* from nothing else: min and max are the least and the greatest of them, avg
\* their mean rounded (fee to a whole number, rating and credits to one
\* decimal), and a range none of whose values is set has min, max and avg
\* null.
C22_InsightsFromFoundValues ==
    (route = "compare" /\ response.status = 200) =>
        LET courses == response.body["courses"]
            Found(column) ==
                LET present == SelectSeq(courses, LAMBDA course : IsSet(course[column]))
                IN  [i \in 1..Len(present) |-> Val(present[i][column])]
            Distance(a, b) == IF a >= b THEN a - b ELSE b - a
            \* range against the values found; the values times scale and
            \* the average are in tenths, the average rounded to unit tenths
            RangeOf(range, values, scale, unit) ==
                IF Len(values) = 0
                THEN range = [min |-> Null, max |-> Null, avg |-> Null]
                ELSE /\ range.min = Some(SetMin(Range(values)))
                     /\ range.max = Some(SetMax(Range(values)))
                     /\ IsSet(range.avg)
                     /\ Val(range.avg) % unit = 0
                     /\ 2 * Distance(Val(range.avg) * Len(values), scale * SumSeq(values))
                          <= unit * Len(values)
        IN  /\ Range(courses) = {row \in store : row.course_id \in Range(uniqueIds)}
            /\ Has(response.body, "insights") <=> Len(courses) > 1
            /\ Has(response.body, "insights") =>
                  LET insights == response.body["insights"]
                  IN  /\ RangeOf(insights.fee_range, Found("tuition_fee_inr"), 1, 10)
                      /\ RangeOf(insights.rating_range, Found("rating"), 1, 1)
                      /\ RangeOf(insights.credits_range, Found("credits"), 10, 1)

\* two courses have been compared of which neither has a rating and one has
\* no credits and no fee: rating_range is null, the other ranges are those of
\* the one value that is set
C22_Witness ==
    /\ route = "compare" /\ response.status = 200
    /\ Len(response.body["courses"]) = 2
    /\ \A i \in 1..2 : response.body["courses"][i].rating = Null
    /\ \E i \in 1..2 : response.body["courses"][i].credits = Null
    /\ response.body["insights"].rating_range = NullRange
    /\ response.body["insights"].credits_range = [min |-> Some(4), max |-> Some(4), avg |-> Some(40)]
    /\ response.body["insights"].fee_range.avg = Some(Dec(500))

\* C28: over a table in which course_id is unique, an accepted comparison
\* answers with requested_count = found_count + missing_count, where
\* requested_count is the number of distinct ids requested, found_count the
\* number of courses returned, and missing_ids lists, once each and in the
\* order of their first occurrence, exactly the requested ids that have no
\* row in the table.
C28_CountsAddUp ==
    (route = "compare" /\ response.status = 200) =>
        LET ids == ParseIds(request["ids"])
            meta == response.body["meta"]
            missing == response.body["missing_ids"]
            First(id) == SetMin({k \in 1..Len(ids) : ids[k] = id})
        IN  /\ \A a, b \in store : a.course_id = b.course_id => a = b
            /\ meta.requested_count = Cardinality(Range(ids))
            /\ meta.found_count = Len(response.body["courses"])
            /\ meta.missing_count = Len(missing)
            /\ meta.requested_count = meta.found_count + meta.missing_count
            /\ Range(missing) = {id \in Range(ids) : \A row \in store : row.course_id # id}
            /\ \A i, j \in 1..Len(missing) : i < j => First(missing[i]) < First(missing[j])

\* 'E,A,E,D' has been compared over a table that holds A but neither E nor
\* D: three ids requested, one found, E and D missing in this order
C28_Witness ==
    /\ route = "compare" /\ response.status = 200
    /\ request["ids"] = "E,A,E,D"
    /\ response.body["missing_ids"] = <<"E", "D">>
    /\ response.body["meta"] = [requested_count |-> 3, found_count |-> 1, missing_count |-> 2]

\* ------------------------------------------------------------------------
\* Properties of the frontend
\* ------------------------------------------------------------------------

\* C25: the compare list never holds an id twice and never holds more than
\* five ids, also when addToCompare is called several times before the
\* provider renders again
C25_NoDuplicateAtMostFive ==
    /\ \A i, j \in 1..Len(compareList) : compareList[i] = compareList[j] => i = j
    /\ Len(compareList) <= CompareListLimit

\* C27: the remove control of a displayed course removes the id of that
\* course (its course_id) from the compare list
C27_RemoveControlRemoves ==
    [][\A i \in 1..MaxCompareIds :
          RemoveClicked(i) =>
             compareList' = Filtered(compareList, Property(DisplayedCourses[i], "course_id"))]_vars

\* the request being served has the filter set, page and per_page (and, on
\* GET /courses, the sort parameters) of the served request e
SameCompilation(e) ==
    /\ e.route = route
    /\ e.vparams = vparams
    /\ IF route = "ask" THEN e.filters = filters ELSE e.request = request

C26_LatestRequestDisplayed ==
    (search.inFlight = {} /\ hasFiltersApplied(search.filters)) =>
       LET latest == Shown(CoursesAnswer(store,
                          buildQueryParams(search.filters, search.currentPage)))
       IN  /\ search.courses = latest.courses
           /\ search.totalResults = latest.totalResults
           /\ search.totalPages = latest.totalPages

\* ------------------------------------------------------------------------
\* Properties of the shutdown
\* ------------------------------------------------------------------------

\* C29: pool.end is called only once the HTTP server has closed, and at most
\* once
C29_PoolEndedAfterServerOnce ==
    /\ process.ends > 0 => process.server = "closed"
    /\ process.ends <= 1

\* ------------------------------------------------------------------------
\* Properties of the ingestion
\* ------------------------------------------------------------------------

\* C30: while the records are processed every record gone through is
\* counted once, as inserted, updated or failed, and every failure has its
\* entry in failedRows; the 200 response is sent after the last record, and
\* its counters add up to total_processed, the number of records
C30_CountersAddUp ==
    /\ ingest.pc \in {"loop", "upsert"} =>
          /\ ingest.inserted + ingest.updated + ingest.failed = ingest.i
          /\ Len(ingest.failedRows) = ingest.failed
    /\ ingest.response.status = 200 =>
          /\ ingest.response.body["inserted"] + ingest.response.body["updated"]
               + ingest.response.body["failed"] = ingest.response.body["total_processed"]
          /\ ingest.response.body["total_processed"] = Len(ingest.records)

\* a file of three records is answered 200: the first lacks its id, the
\* upsert of another rejects, and a record after them is inserted
C30_Witness ==
    /\ ingest.response.status = 200
    /\ Len(ingest.records) = 3
    /\ ingest.response.body["failed"] = 2
    /\ ingest.response.body["inserted"] = 1
    /\ ingest.response.body["failed_rows"][1].row = 2
    /\ ingest.response.body["failed_rows"][2].error = "Connection terminated unexpectedly"
    /\ missingFields(ingest.records[3]) = <<>>

========================================================================
